---------------------------- MODULE Spec2Model ----------------------------
(***************************************************************************)
(* A model of pwgen: the deterministic password derivation of pwgen.py     *)
(* (key schedule, ChaCha20 byte source, rejection sampling, policy check,  *)
(* bounded retry) and the encrypted vault (envelope, atomic save, the CLI  *)
(* and web commands that read and write it).                               *)
(*                                                                         *)
(* Hashes, the KDF and the AEAD are modelled symbolically: a digest is the *)
(* record of what was hashed, so two digests are equal exactly when their  *)
(* inputs are (no collisions).  The ChaCha20 keystream is a fixed function *)
(* of (key, position), computed arithmetically from a numeric code of the  *)
(* key.  Opaque random values (os.urandom) are drawn from small sets.      *)
(***************************************************************************)
EXTENDS Integers, Sequences, FiniteSets, TLC

VARIABLES
    \* ---- derivation (gen_password / gen_password_with_retries) ----
    din,        \* the argument tuple of the derive calls of this behaviour
    dout,       \* the results of the derive calls made so far, in order
    hasCipher,  \* build: cryptography's Cipher/algorithms import succeeded
    hasTldextract,  \* build: the import of tldextract succeeded
    \* ---- ambient state ----
    clock,      \* the wall clock read by now_iso()
    \* ---- file system ----
    names,      \* file name -> inode number (0: no such file)
    inodes,     \* inode number -> content: a sequence of written chunks
    \* ---- processes running one command each ----
    pc,         \* process -> position in its command
    loc,        \* process -> the command's local variables and its result
    edited      \* what was edited in the vault file since it was saved

dvars == <<din, dout, hasCipher, hasTldextract>>
fvars == <<names, inodes, pc, loc, edited>>
vars  == <<din, dout, hasCipher, hasTldextract, clock, names, inodes, pc, loc,
           edited>>

---------------------------------------------------------------------------
(* Bounds of the model *)

MaxClock == 1      \* the clock ticks at most this many times
MaxCalls == 2      \* derive calls recorded per behaviour
MaxC     == 1      \* largest stored rotation counter
MaxRand  == 2      \* distinct values one os.urandom(n) call can return
NChunks  == 2      \* OS writes a file's content takes

---------------------------------------------------------------------------
(* Program constants: pwgen.py, "ПАРАМЕТРЫ ПО УМОЛЧАНИЮ" *)

DEFAULT_KDF_T == 3
DEFAULT_KDF_M == 131072
DEFAULT_KDF_P == 1
ALGO_VERSION == "sha512-v1"
SUPPORTED_ALGO_VERSIONS == {ALGO_VERSION}
DEFAULT_MAX_TRIES == 8

\* The grave accent, which a TLA+ string literal cannot hold.
BACKTICK == "<grave>"

CLASSES ==
    [lower   |-> <<"a","b","c","d","e","f","g","h","i","j","k","l","m",
                   "n","o","p","q","r","s","t","u","v","w","x","y","z">>,
     upper   |-> <<"A","B","C","D","E","F","G","H","I","J","K","L","M",
                   "N","O","P","Q","R","S","T","U","V","W","X","Y","Z">>,
     digits  |-> <<"0","1","2","3","4","5","6","7","8","9">>,
     symbols |-> <<"!","#","$","%","&","(",")","*","+",",","-",".","/",":",
                   ";","<","=",">","?","@","[","]","^","_","{","|","}","~">>]

ClassNames == DOMAIN CLASSES

PROFILES ==
    [strict |-> [length |-> 24, classes |-> <<"lower","upper","digits","symbols">>,
                 forbid |-> <<"\"", "'", BACKTICK, " ">>],
     legacy |-> [length |-> 16, classes |-> <<"lower","upper","digits">>,
                 forbid |-> <<"\"", "'", BACKTICK, " ">>],
     pin    |-> [length |-> 10, classes |-> <<"digits">>, forbid |-> <<>>],
     hard   |-> [length |-> 40, classes |-> <<"lower","upper","digits","symbols">>,
                 forbid |-> <<"\"", "'", BACKTICK, " ">>],
     ultra  |-> [length |-> 64, classes |-> <<"lower","upper","digits","symbols">>,
                 forbid |-> <<"\"", "'", BACKTICK, " ">>]]

---------------------------------------------------------------------------
(* Sequence helpers *)

Range(s) == {s[i] : i \in DOMAIN s}

RECURSIVE Concat(_)
Concat(ss) == IF ss = <<>> THEN <<>> ELSE Head(ss) \o Concat(Tail(ss))

Swap(arr, i, j) == [arr EXCEPT ![i] = arr[j], ![j] = arr[i]]

---------------------------------------------------------------------------
(* Byte strings.  A byte string is a sequence of naturals.  A text is       *)
(* encoded (str.encode('utf-8')) token by token: every string the model    *)
(* uses has a code of its own in StrTable, so the encoding is injective.   *)

StrTable ==
    <<"pwgen|", "|", "|c=", "|r=", "salt|", "password|", "alphabet|",
      "{", "}", "[", "]", ", ", ": ", "\"", "classes", "forbid", "length",
      "lower", "upper", "digits", "symbols", "nosuchclass",
      "sha512-v1", "sha256-v0",
      "example.com", "xn--mller-kva.de", "u@x", "you@mail.com",
      "correct horse battery staple", "master-A", "master-B", "", "'",
      BACKTICK, " ", "pwgen|drbg", "pwgen|vault|v1", "capsule|sha512-v1">>
    \o CLASSES.lower \o CLASSES.upper \o CLASSES.digits
    \o CLASSES.symbols

StrCode(s) == 256 + (CHOOSE i \in DOMAIN StrTable : StrTable[i] = s)

\* s.encode('utf-8')
utf8(s) == <<StrCode(s)>>

\* str(n) for an integer n, then encoded: a sign and the decimal digits
RECURSIVE DecDigits(_)
DecDigits(n) ==
    IF n < 10 THEN utf8(CLASSES.digits[n + 1])
    ELSE DecDigits(n \div 10) \o utf8(CLASSES.digits[(n % 10) + 1])

decimal(n) == IF n < 0 THEN utf8("-") \o DecDigits(0 - n) ELSE DecDigits(n)

\* bytes.hex(): two hexadecimal digits per byte (as digit values 0..15)
RECURSIVE hex(_)
hex(b) ==
    IF b = <<>> THEN <<>>
    ELSE <<Head(b) \div 16, Head(b) % 16>> \o hex(Tail(b))

\* bytes.fromhex(): the inverse on strings of an even number of digits
RECURSIVE fromhex(_)
fromhex(h) ==
    IF Len(h) < 2 THEN <<>>
    ELSE <<h[1] * 16 + h[2]>> \o fromhex(Tail(Tail(h)))

\* json.dumps(policy, sort_keys=True): keys in ascending order, the default
\* separators ", " and ": ", strings in double quotes
Quoted(s) == utf8("\"") \o utf8(s) \o utf8("\"")

RECURSIVE JsonItems(_)
JsonItems(xs) ==
    IF xs = <<>> THEN <<>>
    ELSE IF Len(xs) = 1 THEN Quoted(xs[1])
    ELSE Quoted(xs[1]) \o utf8(", ") \o JsonItems(Tail(xs))

JsonList(xs) == utf8("[") \o JsonItems(xs) \o utf8("]")

json_dumps_policy(policy) ==
    utf8("{")
    \o Quoted("classes") \o utf8(": ") \o JsonList(policy.classes) \o utf8(", ")
    \o Quoted("forbid")  \o utf8(": ") \o JsonList(policy.forbid)  \o utf8(", ")
    \o Quoted("length")  \o utf8(": ") \o decimal(policy.length)
    \o utf8("}")

---------------------------------------------------------------------------
(* Hashes and the KDF.  A digest is a tag followed by everything that was  *)
(* hashed (length-prefixed where two variable parts meet), so distinct     *)
(* inputs give distinct digests.                                           *)

TagSha512   == 600
TagHmac     == 601
TagArgon2id == 602
TagSha256   == 603

sha256(data) == <<TagSha256>> \o data

sha512_256(data) == <<TagSha512>> \o data

hmac_sha512(key, msg) == <<TagHmac, Len(key)>> \o key \o msg

\* hkdf_expand_sha512: a single block, L <= 64 (the digest size)
hkdf_expand_sha512(prk, info, L) ==
    IF L > 64 THEN [err |-> "ValueError"]
    ELSE [err |-> "", val |-> <<L>> \o hmac_sha512(prk, info \o <<1>>)]

\* hkdf_extract_sha512: an empty salt is replaced by 64 zero bytes
hkdf_extract_sha512(salt, ikm, L) ==
    LET s == IF salt = <<>> THEN [i \in 1..64 |-> 0] ELSE salt
    IN  <<L>> \o hmac_sha512(s, ikm)

\* argon2.low_level.hash_secret_raw(..., type=Argon2Type.ID)
hash_secret_raw(secret, salt, t, m, p, hash_len) ==
    <<TagArgon2id, t, m, p, hash_len, Len(secret)>> \o secret \o salt

kdf_argon2id(master, salt, t, m, p) ==
    hash_secret_raw(utf8(master), salt, t, m, p, 32)

---------------------------------------------------------------------------
(* DRBG: the ChaCha20 keystream as a byte source.  The cipher is a fixed   *)
(* function of (key, nonce, block counter, offset); the model computes it  *)
(* from a fingerprint of key and nonce.                                    *)

FpMod == 65521

Mix(h, x) == (h * 131 + x * 31 + 7) % FpMod

\* a position-sensitive digest of b[lo..hi], by halves
RECURSIVE FingerprintOf(_, _, _)
FingerprintOf(b, lo, hi) ==
    IF lo > hi THEN 7
    ELSE IF lo = hi THEN Mix(lo % 64, b[lo] % FpMod)
    ELSE LET mid == (lo + hi) \div 2
         IN  Mix(FingerprintOf(b, lo, mid), FingerprintOf(b, mid + 1, hi))

Fingerprint(b) == FingerprintOf(b, 1, Len(b))

\* one keystream byte of block ctr at offset off
CipherByte(seed, ctr, off) ==
    LET x1 == (seed * 7919 + 13) % FpMod
        x2 == (x1 + ctr * 89 + off * 3 + 1) % 32749
        x3 == (x2 * x2 + x1 + off) % FpMod
        x4 == (x3 * 251 + x2) % FpMod
    IN  (x4 \div 7) % 256

\* faulty variant: one stream object shared by every call: a later call goes on
\* where the earlier ones stopped
chacha20_stream_shared(key, nonce) ==
    [seed |-> Fingerprint(key \o nonce), block |-> 64, pos |-> 64 * Len(dout)]

\* chacha20_stream: a generator, here its state: the key's seed and how many
\* bytes were taken.  With Cipher available the stream is ChaCha20's own
\* keystream in 64-byte blocks; otherwise each block is the 80 bytes
\* (64 of ciphertext, 16 of tag) of a ChaCha20-Poly1305 encryption under
\* the nonce nonce[:4] || counter.
chacha20_stream(key, nonce) ==
    IF hasCipher
    THEN [seed |-> Fingerprint(key \o nonce), block |-> 64, pos |-> 0]
    ELSE [seed |-> Fingerprint(<<1>> \o key \o SubSeq(nonce, 1, 4)
                               \o utf8("pwgen|drbg")),
          block |-> 80, pos |-> 0]

ZeroNonce == [i \in 1..16 |-> 0]

\* next(it): the byte and the advanced generator
\* A byte iterator is also what iter() makes of given bytes: then it yields
\* them in order (and zero bytes after them: the iterators of the model
\* never end).
StreamByte(it) ==
    IF "bytes" \in DOMAIN it
    THEN (IF it.pos < Len(it.bytes) THEN it.bytes[it.pos + 1] ELSE 0)
    ELSE CipherByte(it.seed, it.pos \div it.block, it.pos % it.block)
Advance(it, k) == [it EXCEPT !.pos = @ + k]

\* rand_below: uniform in [0, n] by rejection on a big-endian 32-bit value.
\* The value is kept as two 16-bit halves (hi, lo):
\*   val % (n+1)  = ((hi % m) * (65536 % m) + lo) % m             with m = n+1
\*   limit        = 2^32 - r,  r = 2^32 % m = ((65536 % m)^2) % m
\*   val < limit  iff  ~(hi = 65535 /\ lo > 65535 - r)   (and always if r = 0)
\* faulty variant: the first 32-bit value is reduced, whatever it is
rand_below_no_rejection(it, n) ==
    IF n <= 0 THEN [val |-> 0, it |-> it]
    ELSE [val |-> (((StreamByte(it) * 256 + StreamByte(Advance(it, 1))) % (n + 1))
                     * (65536 % (n + 1))
                   + StreamByte(Advance(it, 2)) * 256 + StreamByte(Advance(it, 3)))
                  % (n + 1),
          it |-> Advance(it, 4)]

RECURSIVE rand_below(_, _)
rand_below(it, n) ==
    IF n <= 0 THEN [val |-> 0, it |-> it]
    ELSE
      LET b0 == StreamByte(it)
          b1 == StreamByte(Advance(it, 1))
          b2 == StreamByte(Advance(it, 2))
          b3 == StreamByte(Advance(it, 3))
          hi == b0 * 256 + b1
          lo == b2 * 256 + b3
          m  == n + 1
          w  == 65536 % m
          r  == (w * w) % m
          below == r = 0 \/ ~(hi = 65535 /\ lo > 65535 - r)
          it4 == Advance(it, 4)
      IN  IF below
          THEN [val |-> ((hi % m) * w + lo) % m, it |-> it4]
          ELSE rand_below(it4, n)

\* permute_list: Fisher-Yates, i from len-1 down to 1 (0-based), over a
\* stream of its own keyed by key_for_perm.  PermuteSteps runs the loop
\* body for i = hi, hi-1, ..., lo on the state st = [arr, it]; it splits
\* the range in two, and looks at the first half's result before it runs
\* the second, so that the evaluation stays shallow.
PermuteStep(st, i) ==
    LET d == rand_below(st.it, i)
    IN  [arr |-> Swap(st.arr, i + 1, d.val + 1), it |-> d.it]

RECURSIVE PermuteSteps(_, _, _)
PermuteSteps(st, hi, lo) ==
    IF hi < lo THEN st
    ELSE IF hi = lo THEN PermuteStep(st, hi)
    ELSE LET mid  == (hi + lo) \div 2
             half == PermuteSteps(st, hi, mid + 1)
         IN  IF half.it.pos >= 0 THEN PermuteSteps(half, mid, lo) ELSE half

permute_list(items, key_for_perm) ==
    PermuteSteps([arr |-> items, it |-> chacha20_stream(key_for_perm, ZeroNonce)],
                 Len(items) - 1, 1).arr

---------------------------------------------------------------------------
(* Policies and the alphabet *)

\* allow = [c for c in allow if c != ch], for every ch of forbid in turn
RECURSIVE RemoveForbidden(_, _)
RemoveForbidden(allow, forbid) ==
    IF forbid = <<>> THEN allow
    ELSE RemoveForbidden(SelectSeq(allow, LAMBDA c : c # Head(forbid)), Tail(forbid))

\* faulty variant: the forbid list is not applied
build_alphabet_keep_forbidden(policy) ==
    IF \E i \in DOMAIN policy.classes : policy.classes[i] \notin ClassNames
    THEN [err |-> "KeyError", allow |-> <<>>, required_sets |-> <<>>]
    ELSE [err |-> "",
          allow |-> Concat([i \in DOMAIN policy.classes |-> CLASSES[policy.classes[i]]]),
          required_sets |-> [i \in DOMAIN policy.classes |->
                                Range(CLASSES[policy.classes[i]])]]

\* build_alphabet: (allow, required_sets), or the exception it raises:
\* KeyError for a class name CLASSES does not have, ValueError for an
\* alphabet left empty
build_alphabet(policy) ==
    IF \E i \in DOMAIN policy.classes : policy.classes[i] \notin ClassNames
    THEN [err |-> "KeyError", allow |-> <<>>, required_sets |-> <<>>]
    ELSE
      LET all   == Concat([i \in DOMAIN policy.classes |-> CLASSES[policy.classes[i]]])
          allow == RemoveForbidden(all, policy.forbid)
          req   == [i \in DOMAIN policy.classes |-> Range(CLASSES[policy.classes[i]])]
      IN  IF allow = <<>>
          THEN [err |-> "ValueError", allow |-> <<>>, required_sets |-> <<>>]
          ELSE [err |-> "", allow |-> allow, required_sets |-> req]

\* faulty variant: one required set met is taken for all of them
satisfies_some_class(pwd, required_sets) ==
    \E i \in DOMAIN required_sets : Range(pwd) \cap required_sets[i] # {}

\* satisfies_classes: the password meets every required set
satisfies_classes(pwd, required_sets) ==
    \A i \in DOMAIN required_sets : Range(pwd) \cap required_sets[i] # {}

---------------------------------------------------------------------------
(* Password generation *)

\* the context byte string of gen_password
Context(site_id, login, policy, v, c, rseed) ==
    utf8("pwgen|") \o utf8(v) \o utf8("|") \o utf8(site_id) \o utf8("|")
    \o utf8(login) \o utf8("|") \o json_dumps_policy(policy)
    \o utf8("|c=") \o decimal(c) \o utf8("|r=") \o hex(rseed)

\* the sampling loop `while len(out) < L`: take stream bytes, keep those
\* below T.  SampleOne runs it until one more character is appended;
\* SampleMany appends k characters, splitting k in two so that the
\* evaluation stays shallow.  The state is st = [out, it].
RECURSIVE SampleOne(_, _, _)
SampleOne(st, A, T) ==
    LET b == StreamByte(st.it)
    IN  IF b < T
        THEN [out |-> Append(st.out, A[(b % Len(A)) + 1]), it |-> Advance(st.it, 1)]
        ELSE SampleOne([out |-> st.out, it |-> Advance(st.it, 1)], A, T)

RECURSIVE SampleMany(_, _, _, _)
SampleMany(st, k, A, T) ==
    IF k <= 0 THEN st
    ELSE IF k = 1 THEN SampleOne(st, A, T)
    ELSE LET half == SampleMany(st, k \div 2, A, T)
         IN  IF half.it.pos >= 0 THEN SampleMany(half, k - (k \div 2), A, T) ELSE half

\* faulty variant: the capsule is left out of the key
gen_password_prk_without_capsule(master, capsule, context) ==
    hash_secret_raw(utf8(master), sha512_256(utf8("salt|") \o context),
                    DEFAULT_KDF_T, DEFAULT_KDF_M, DEFAULT_KDF_P, 32)

\* prk of gen_password: Argon2id of the master under the salt made of the
\* context; `if capsule and len(capsule) >= 32` HKDF-Extract mixes the
\* capsule in
gen_password_prk(master, capsule, context) ==
    LET Mixed(prk0) ==
            IF Len(capsule) >= 32 THEN hkdf_extract_sha512(prk0, capsule, 32)
            ELSE prk0
    IN  Mixed(hash_secret_raw(utf8(master), sha512_256(utf8("salt|") \o context),
                              DEFAULT_KDF_T, DEFAULT_KDF_M, DEFAULT_KDF_P, 32))

\* Kpwd and Kperm of gen_password (and the prk they are expanded from)
gen_password_keys(prk, context) ==
    [prk   |-> prk,
     Kpwd  |-> hkdf_expand_sha512(prk, utf8("password|") \o context, 32).val,
     Kperm |-> hkdf_expand_sha512(prk, utf8("alphabet|") \o context, 32).val]

\* gen_password: the password (a sequence of characters), or the exception.
\* "diverges": the loop `while len(out) < L` never ends, which is the case
\* when T = 0 (an alphabet of more than 256 entries) and L > 0.
gen_password(master, capsule, site_id, login, policy, v, c, rseed) ==
    IF v \notin SUPPORTED_ALGO_VERSIONS THEN [err |-> "ValueError", pwd |-> <<>>]
    ELSE
      \* every value the function computes is computed once and handed on:
      \* the context, then the keys and the alphabet, then the permuted
      \* alphabet A
      LET Sampled(A, Kpwd) ==
              LET L == policy.length
                  M == Len(A)
                  T == (256 \div M) * M
              IN  IF T = 0 /\ L > 0 THEN [err |-> "diverges", pwd |-> <<>>]
                  ELSE
                    LET it  == chacha20_stream(Kpwd, ZeroNonce)
                        out == SampleMany([out |-> <<>>, it |-> it], L, A, T).out
                    IN  [err |-> "", pwd |-> permute_list(out, Kpwd)]
          WithKeys(keys, ba) ==
              IF ba.err # "" THEN [err |-> ba.err, pwd |-> <<>>]
              ELSE Sampled(permute_list(ba.allow, keys.Kperm), keys.Kpwd)
          WithContext(context) ==
              WithKeys(gen_password_keys(gen_password_prk(master, capsule, context),
                                         context),
                       build_alphabet(policy))
      IN  WithContext(Context(site_id, login, policy, v, c, rseed))

\* gen_password_with_retries: (pwd, used_c), or the exception.  With
\* max_tries <= 0 the loop body never runs and `pwd` is unbound.
RECURSIVE RetryFrom(_, _, _, _)
RetryFrom(a, required_sets, i, max_tries) ==
    LET Tried(g) ==
            IF g.err # ""
            THEN [err |-> g.err, pwd |-> <<>>, used_c |-> 0, calls |-> i + 1]
            ELSE IF satisfies_classes(g.pwd, required_sets)
                 THEN [err |-> "", pwd |-> g.pwd, used_c |-> a.c + i,
                       calls |-> i + 1]
            ELSE IF i + 1 >= max_tries
                 THEN [err |-> "", pwd |-> g.pwd, used_c |-> a.c + max_tries - 1,
                       calls |-> i + 1]
            ELSE RetryFrom(a, required_sets, i + 1, max_tries)
    IN  Tried(gen_password(a.master, a.capsule, a.site_id, a.login,
                           a.policy, a.v, a.c + i, a.rseed))

\* faulty variant: the loop runs once more than max_tries
gen_password_with_retries_one_more(a, max_tries) ==
    LET ba == build_alphabet(a.policy)
    IN  IF ba.err # "" THEN [err |-> ba.err, pwd |-> <<>>, used_c |-> 0, calls |-> 0]
        ELSE RetryFrom(a, ba.required_sets, 0, max_tries + 1)

\* calls counts the candidates computed (the calls of gen_password)
gen_password_with_retries(a, max_tries) ==
    LET ba == build_alphabet(a.policy)
    IN  IF ba.err # "" THEN [err |-> ba.err, pwd |-> <<>>, used_c |-> 0, calls |-> 0]
        ELSE IF max_tries <= 0
             THEN [err |-> "UnboundLocalError", pwd |-> <<>>, used_c |-> 0,
                   calls |-> 0]
        ELSE RetryFrom(a, ba.required_sets, 0, max_tries)
---------------------------------------------------------------------------
(* cmd_get: the policy a derivation runs with.  `length` is args.length;   *)
(* an absent (None) or zero value is falsy and leaves the stored length.   *)

OverrideLength(policy, length) ==
    IF length # 0 THEN [policy EXCEPT !.length = length] ELSE policy

\* cmd_get after the derivation: a ValueError is printed with the direction
\* to rotate the entry and the command exits with 1; any other exception is
\* not caught; else the password is printed, and the counter that was used
\* when it is not the stored one
cmd_get_report(res, stored_c) ==
    IF res.err = "ValueError"
    THEN [exit |-> 1, pwd |-> <<>>, message |-> res.err, rotate_hint |-> TRUE,
          used_c_note |-> FALSE]
    ELSE IF res.err # ""
    THEN [exit |-> 1, pwd |-> <<>>, message |-> "traceback", rotate_hint |-> FALSE,
          used_c_note |-> FALSE]
    ELSE [exit |-> 0, pwd |-> res.pwd, message |-> "", rotate_hint |-> FALSE,
          used_c_note |-> res.used_c # stored_c]

---------------------------------------------------------------------------
(* The derive calls of one behaviour.  Init draws the argument tuple; every *)
(* Derive step calls gen_password_with_retries on it and appends what was  *)
(* returned, while the clock runs on.                                      *)

Zero16 == [i \in 1..16 |-> 0]
Seed16 == [i \in 1..16 |-> (i * 37) % 256]
Cap32a == [i \in 1..32 |-> i]
Cap32b == [i \in 1..32 |-> 255 - i]
Cap31  == [i \in 1..31 |-> i]

PolMini    == [length |-> 4, classes |-> <<"lower","digits">>, forbid |-> <<"a","0">>]
PolFour    == [length |-> 6, classes |-> <<"lower","upper","digits","symbols">>,
               forbid |-> <<"a","0","!">>]
PolNeg     == [length |-> -1, classes |-> <<"digits">>, forbid |-> <<>>]
PolZero    == [length |-> 0, classes |-> <<"digits">>, forbid |-> <<>>]
PolUnknown == [length |-> 4, classes |-> <<"digits","nosuchclass">>, forbid |-> <<>>]
PolEmpty   == [length |-> 4, classes |-> <<"digits">>, forbid |-> CLASSES.digits]
PolNoDigit == [length |-> 4, classes |-> <<"lower","digits">>, forbid |-> CLASSES.digits]

\* values of max_tries other than the default
OtherMaxTries == {1, 2, 3}

DPolicies ==
    {PROFILES.strict, PROFILES.pin, PolMini, PolFour, PolNeg, PolZero,
     PolUnknown, PolEmpty, PolNoDigit}

DArgs(master, capsule, policy, v, c, rseed, length) ==
    [master |-> master, capsule |-> capsule, site_id |-> "example.com",
     login |-> "u@x", policy |-> policy, v |-> v, c |-> c, rseed |-> rseed,
     length |-> length, max_tries |-> DEFAULT_MAX_TRIES]

\* the argument tuples the behaviours draw from: every policy; a small
\* policy at every counter; the other arguments varied on a small policy; a
\* length override as `get --length` gives it; a record of an unsupported
\* version under every policy; other values of max_tries
DInputs ==
    {DArgs("correct horse battery staple", Cap32a, p, ALGO_VERSION, 0, Zero16, 0) :
        p \in DPolicies}
    \cup {DArgs("correct horse battery staple", Cap32a, PolMini, ALGO_VERSION, c,
                Zero16, 0) : c \in 1..MaxC}
    \cup {DArgs(m, cap, PolMini, v, 0, Zero16, 0) :
        m \in {"master-A", "master-B"}, cap \in {<<>>, Cap31, Cap32b},
        v \in {ALGO_VERSION, "sha256-v0"}}
    \cup {DArgs("master-A", Cap32b, PolMini, ALGO_VERSION, 0, Seed16, 0)}
    \cup {DArgs("master-A", Cap32a, p, ALGO_VERSION, 0, Seed16, len) :
        p \in {PROFILES.pin, PolMini}, len \in {-1, 3, 5}}
    \cup {DArgs("master-A", Cap32a, p, "sha256-v0", 0, Zero16, 0) :
        p \in DPolicies}
    \cup {[DArgs("master-A", Cap32b, p, ALGO_VERSION, 0, Zero16, 0)
              EXCEPT !.max_tries = k] :
        p \in {PolMini, PolNoDigit}, k \in OtherMaxTries}

\* the arguments as cmd_get passes them to gen_password_with_retries
CallArgs(a) ==
    [master |-> a.master, capsule |-> a.capsule, site_id |-> a.site_id,
     login |-> a.login, policy |-> OverrideLength(a.policy, a.length),
     v |-> a.v, c |-> a.c, rseed |-> a.rseed, max_tries |-> a.max_tries]

\* the keys gen_password derives for the arguments a, the capsule being cap
\* (Derive records them for a supported version: for any other the function
\* raises before it derives a key)
KeysOf(a, cap) ==
    LET Keyed(context) ==
            gen_password_keys(gen_password_prk(a.master, cap, context), context)
    IN  Keyed(Context(a.site_id, a.login, a.policy, a.v, a.c, a.rseed))

DInit ==
    /\ din \in DInputs
    /\ dout = <<>>
    /\ hasCipher \in BOOLEAN
    /\ hasTldextract = FALSE      \* not read by a derivation
    /\ clock = 0
    /\ names = <<>> /\ inodes = <<>> /\ pc = <<>> /\ loc = <<>>
    /\ edited = <<>>

Derive ==
    /\ Len(dout) < MaxCalls
    /\ \E a \in {CallArgs(din)} :
       \E res \in {gen_password_with_retries(a, a.max_tries)} :
          dout' = Append(dout,
             [res |-> res,
              one |-> gen_password(a.master, a.capsule, a.site_id, a.login,
                                   a.policy, a.v, a.c, a.rseed),
              cli |-> cmd_get_report(res, a.c),
              keys |-> IF a.v \in SUPPORTED_ALGO_VERSIONS
                       THEN KeysOf(a, a.capsule) ELSE <<>>,
              at  |-> clock])
    /\ UNCHANGED <<din, hasCipher, hasTldextract, clock, fvars>>

Tick ==
    /\ clock < MaxClock
    /\ clock' = clock + 1
    /\ UNCHANGED <<dvars, fvars>>

DNext == Derive \/ Tick

SpecDerive == DInit /\ [][DNext]_vars
---------------------------------------------------------------------------
(* Claims about the derivation, checked under SpecDerive *)

\* the characters of a class, from CLASSES alone
ClassSet(cls) == Range(CLASSES[cls])

\* the password has a character of every class of `classes`
Covers(pwd, classes) ==
    \A k \in DOMAIN classes : \E j \in DOMAIN pwd : pwd[j] \in ClassSet(classes[k])

\* the final alphabet as a set: the class strings without the forbidden
FinalAlphabet(policy) ==
    UNION {ClassSet(policy.classes[k]) : k \in DOMAIN policy.classes}
        \ Range(policy.forbid)

\* the candidate of attempt i
Candidate(a, i) ==
    gen_password(a.master, a.capsule, a.site_id, a.login, a.policy, a.v,
                 a.c + i, a.rseed)

C2_LengthIsPolicyLength ==
    \A i \in DOMAIN dout :
        LET L == CallArgs(din).policy.length
        IN  /\ dout[i].res.err = "" => Len(dout[i].res.pwd) = L
            /\ dout[i].one.err = "" => Len(dout[i].one.pwd) = L

\* C3: class coverage.  If some attempt i in [0, max_tries) gives a
\* candidate with a character of every class of policy.classes, then the
\* password gen_password_with_retries returns has one of every class
\* (membership in the full class string, before forbid is applied).  It is
\* stated of the call made last: every call was the last one when it was
\* made.
C3_ClassCoverage ==
    dout # <<>> =>
        LET a == CallArgs(din)
            r == dout[Len(dout)].res
        IN  r.err = "" =>
              \/ Covers(r.pwd, a.policy.classes)
              \/ ~ \E i \in 0..(a.max_tries - 1) :
                     Covers(Candidate(a, i).pwd, a.policy.classes)

\* C3 witness: the first candidate lacked a class, a later one had them
\* all, and that one was returned
C3_Witness ==
    /\ dout # <<>>
    /\ dout[1].res.err = "" /\ dout[1].one.err = ""
    /\ ~ Covers(dout[1].one.pwd, CallArgs(din).policy.classes)
    /\ Covers(dout[1].res.pwd, CallArgs(din).policy.classes)
    /\ Len(CallArgs(din).policy.classes) > 1

\* C4: every character of a derived password is in the final alphabet
\* (the class strings of policy.classes without the characters of
\* policy.forbid), so no forbidden character appears in a password.
C4_InFinalAlphabet ==
    \A n \in DOMAIN dout :
        LET pol == CallArgs(din).policy
        IN  /\ dout[n].res.err = "" =>
                 Range(dout[n].res.pwd) \subseteq FinalAlphabet(pol)
            /\ dout[n].one.err = "" =>
                 Range(dout[n].one.pwd) \subseteq FinalAlphabet(pol)

\* C4 witness: a password was derived under a policy that forbids
\* characters of its own classes
C4_Witness ==
    /\ dout # <<>>
    /\ dout[1].res.err = ""
    /\ dout[1].res.pwd # <<>>
    /\ LET pol == CallArgs(din).policy
       IN  \E k \in DOMAIN pol.classes :
              ClassSet(pol.classes[k]) \cap Range(pol.forbid) # {}

\* the policy is one the data model allows: a length in [4,128], class
\* names of CLASSES only, a final alphabet that is not empty
ValidPolicy(policy) ==
    /\ policy.length \in 4..128
    /\ \A k \in DOMAIN policy.classes : policy.classes[k] \in ClassNames
    /\ FinalAlphabet(policy) # {}

\* C13 (as claimed): a derivation for a record whose version is not
\* "sha512-v1" fails with an error and yields no password, whatever the
\* other inputs are, and get on the command line reports the error
\* together with the direction to rotate the entry.
C13_UnsupportedVersionFails ==
    \A n \in DOMAIN dout :
        CallArgs(din).v \notin {"sha512-v1"} =>
            /\ dout[n].res.err # "" /\ dout[n].res.pwd = <<>>
            /\ dout[n].one.err # "" /\ dout[n].one.pwd = <<>>
            /\ dout[n].cli.exit = 1 /\ dout[n].cli.pwd = <<>>
            /\ dout[n].cli.rotate_hint

\* C14 (as claimed): a derivation under a policy that is invalid (an empty
\* final alphabet, a length outside [4,128], a class name that is none of
\* lower, upper, digits, symbols) is rejected with the policy error (the
\* ValueError of build_alphabet) and returns no password.
C14_InvalidPolicyRejected ==
    \A n \in DOMAIN dout :
        LET a == CallArgs(din)
        IN  (a.v \in SUPPORTED_ALGO_VERSIONS /\ ~ValidPolicy(a.policy)) =>
                /\ dout[n].res.err = "ValueError" /\ dout[n].res.pwd = <<>>
                /\ dout[n].one.err = "ValueError" /\ dout[n].one.pwd = <<>>

\* the candidate of attempt i of the last call: what gen_password returns at
\* counter c+i (at counter c, what the call of gen_password returned)
CandidateOfLast(i) ==
    IF i = 0 THEN dout[Len(dout)].one ELSE Candidate(CallArgs(din), i)

\* the candidate of attempt i passes the class-coverage check
Passes(i) ==
    LET g == CandidateOfLast(i)
    IN  g.err = "" /\ Covers(g.pwd, CallArgs(din).policy.classes)

\* C16: bounded retry.  A call of gen_password_with_retries that returns
\* has returned the candidate of counter c+i and used_c = c+i for the
\* smallest i in [0, max_tries) whose candidate has a character of every
\* class; if there is no such i, the candidate of counter c+max_tries-1
\* with used_c = c+max_tries-1, and no error.  It has computed i+1
\* candidates in the first case and max_tries in the second, never more.
C16_BoundedRetry ==
    dout # <<>> =>
        LET a == CallArgs(din)
            k == a.max_tries
            r == dout[Len(dout)].res
            i == r.used_c - a.c
        IN  /\ r.calls <= k
            /\ (dout[Len(dout)].one.err = "" /\ k >= 1) =>
                  /\ r.err = ""
                  /\ i \in 0..(k - 1)
                  /\ r.pwd = CandidateOfLast(i).pwd
                  /\ \A j \in 0..(i - 1) : ~Passes(j)
                  /\ IF Covers(r.pwd, a.policy.classes)
                     THEN r.calls = i + 1
                     ELSE i = k - 1 /\ r.calls = k

\* C16 witness: the first two candidates lacked a class, the third was
\* returned, and more attempts were allowed
C16_Witness ==
    /\ dout # <<>>
    /\ dout[1].res.err = ""
    /\ dout[1].res.used_c = din.c + 2
    /\ dout[1].res.calls = 3
    /\ Covers(dout[1].res.pwd, CallArgs(din).policy.classes)
    /\ CallArgs(din).max_tries > 3

\* a call where no candidate passed: the last one is returned
C16_Exhausted ==
    /\ dout # <<>>
    /\ dout[1].res.err = ""
    /\ ~Covers(dout[1].res.pwd, CallArgs(din).policy.classes)
    /\ dout[1].res.calls = CallArgs(din).max_tries
    /\ CallArgs(din).policy.length >= 4

\* the capsules a derivation may be given: none, one too short, two of 32
\* bytes (the size make_capsule returns), and a longer one
Capsules == {<<>>, Cap31, Cap32a, Cap32b, Cap32a \o Cap32b}

\* C23: capsule isolation.  The keys of a derivation made with a capsule of
\* 32 bytes or more differ, in prk, Kpwd and Kperm, from the keys every
\* other such capsule gives for the same master, site_id, login, policy, v,
\* c and rseed; the keys of a derivation made with no capsule or one
\* shorter than 32 bytes are those of the master alone.
C23_CapsuleIsolation ==
    \A i \in DOMAIN dout :
        LET a == CallArgs(din)
        IN  IF a.v \notin SUPPORTED_ALGO_VERSIONS THEN dout[i].keys = <<>>
            ELSE IF Len(a.capsule) >= 32
            THEN \A cap \in Capsules :
                    (Len(cap) >= 32 /\ cap # a.capsule) =>
                        /\ KeysOf(a, cap).prk # dout[i].keys.prk
                        /\ KeysOf(a, cap).Kpwd # dout[i].keys.Kpwd
                        /\ KeysOf(a, cap).Kperm # dout[i].keys.Kperm
            ELSE /\ \A cap \in Capsules :
                       Len(cap) < 32 => KeysOf(a, cap) = dout[i].keys
                 /\ dout[i].keys.prk =
                       hash_secret_raw(utf8(a.master),
                           sha512_256(utf8("salt|") \o Context(a.site_id, a.login,
                               a.policy, a.v, a.c, a.rseed)),
                           DEFAULT_KDF_T, DEFAULT_KDF_M, DEFAULT_KDF_P, 32)

\* C23 witness: a derivation made with a capsule of 32 bytes, and one made
\* with a capsule of 31
C23_Witness ==
    /\ dout # <<>>
    /\ din.capsule = Cap32b
    /\ dout[1].res.err = ""
    /\ KeysOf(CallArgs(din), Cap32a).Kpwd # dout[1].keys.Kpwd
    /\ KeysOf(CallArgs(din), Cap32a).Kperm # dout[1].keys.Kperm

C23_WitnessShort ==
    /\ dout # <<>>
    /\ din.capsule = Cap31
    /\ dout[1].res.err = ""
    /\ KeysOf(CallArgs(din), <<>>) = dout[1].keys

\* the policy_json segment of the context gen_password builds from a: what
\* stands between the sixth token ("pwgen|", v, "|", site_id, "|", login,
\* "|" come first) and the tail "|c=" decimal(c) "|r=" hex(rseed)
PolicySegment(a) ==
    SubSeq(Context(a.site_id, a.login, a.policy, a.v, a.c, a.rseed),
           8,
           Len(Context(a.site_id, a.login, a.policy, a.v, a.c, a.rseed))
             - (2 + Len(decimal(a.c)) + Len(hex(a.rseed))))

\* the tokens of a JSON document that stand outside its string values; a
\* string value is three tokens: the quote, what is quoted (one token, be it
\* a blank or a quote character), the quote
RECURSIVE OutsideStrings(_)
OutsideStrings(doc) ==
    IF doc = <<>> THEN <<>>
    ELSE IF <<Head(doc)>> = utf8("\"") THEN OutsideStrings(SubSeq(doc, 4, Len(doc)))
    ELSE <<Head(doc)>> \o OutsideStrings(Tail(doc))

\* the codes of the strings that hold a blank
BlankCodes == {StrCode(" "), StrCode(", "), StrCode(": ")}

\* C25: the policy_json segment of the context of every derivation made
\* has no space or other whitespace outside its string values.
C25_PolicyJsonNoWhitespace ==
    \A i \in DOMAIN dout :
        Range(OutsideStrings(PolicySegment(CallArgs(din))))
            \cap BlankCodes = {}

\* the segment is json.dumps(policy, sort_keys=True) with the separators
\* ", " and ": ": keys in ascending order, a blank after every comma and
\* colon
C25_DefaultSeparators ==
    \A i \in DOMAIN dout :
        LET a == CallArgs(din)
            outside == OutsideStrings(PolicySegment(a))
        IN  /\ PolicySegment(a) = json_dumps_policy(a.policy)
            /\ Len(SelectSeq(outside, LAMBDA t : <<t>> = utf8(": "))) = 3
            /\ Len(SelectSeq(outside, LAMBDA t : <<t>> = utf8(", ")))
                  = 2 + (IF Len(a.policy.classes) > 1
                         THEN Len(a.policy.classes) - 1 ELSE 0)
                      + (IF Len(a.policy.forbid) > 1
                         THEN Len(a.policy.forbid) - 1 ELSE 0)
---------------------------------------------------------------------------
(* Calls of rand_below on given bytes.  Here din is the bound n and the     *)
(* bytes the iterator yields, and dout the results of the calls made on    *)
(* that one iterator, in order: each call goes on where the one before     *)
(* stopped, as the calls of permute_list do.                               *)

\* 32-bit values as four bytes, big-endian: small ones, some in the middle,
\* and the largest ones, around 2^32 - (2^32 mod (n+1)) for the n below
RandWords ==
    {<<255, 255, 255, b>> : b \in {255, 254, 252, 251, 250, 249, 214, 213, 160, 159}}
    \cup {<<0, 0, 0, 0>>, <<0, 0, 1, 7>>, <<1, 2, 3, 4>>, <<128, 0, 0, 5>>,
          <<255, 255, 254, 255>>, <<255, 254, 255, 255>>}

\* n + 1 is a power of two (2, 256: nothing is rejected) or leaves 2^32 the
\* remainder 1, 4, 6, 42, 96 or 1
RandBounds == {1, 2, 5, 9, 93, 199, 255, 256}

RandInputs ==
    {[n |-> n, bytes |-> w1 \o w2] : n \in RandBounds, w1 \in RandWords, w2 \in RandWords}

RandInit ==
    /\ din \in RandInputs
    /\ dout = <<>>
    /\ hasCipher = TRUE /\ hasTldextract = FALSE    \* not read by rand_below
    /\ clock = 0
    /\ names = <<>> /\ inodes = <<>> /\ pc = <<>> /\ loc = <<>>
    /\ edited = <<>>

\* j = rand_below(it, n)
RandBelow ==
    /\ Len(dout) < MaxCalls
    /\ \E it \in {IF dout = <<>> THEN [bytes |-> din.bytes, pos |-> 0]
                  ELSE dout[Len(dout)].it} :
          dout' = Append(dout, rand_below(it, din.n))
    /\ UNCHANGED <<din, hasCipher, hasTldextract, clock, fvars>>

RandNext == RandBelow

SpecRand == RandInit /\ [][RandNext]_vars

\* The 32-bit value of the four bytes the iterator yields from position p
\* on, as its upper 31 bits and its lowest bit (the whole value needs more
\* than the 31 bits of an integer here)
WordAt(p) ==
    [k \in 1..4 |-> IF p + k <= Len(din.bytes) THEN din.bytes[p + k] ELSE 0]

Upper31(w) == w[1] * 8388608 + w[2] * 32768 + w[3] * 128 + (w[4] \div 2)

\* v mod m
ValueMod(w, m) == ((Upper31(w) % m) * 2 + (w[4] % 2)) % m

\* 2^32 mod m, from 2^32 = 2 * ((2^31 - 1) + 1)
TwoTo32Mod(m) == (((2147483647 % m) + 1) * 2) % m

\* v >= limit, with limit = 2^32 - (2^32 mod m): that is 2^32 - 1 - v, the
\* value of the complemented bytes, is below 2^32 mod m
AtOrAboveLimit(w, m) ==
    LET cw == [k \in 1..4 |-> 255 - w[k]]
    IN  /\ Upper31(cw) < 1073741824
        /\ Upper31(cw) * 2 + (cw[4] % 2) < TwoTo32Mod(m)

\* limit - 1 = 2^32 - 1 - (2^32 mod m) as four bytes, for m <= 65536
LargestBelowLimit(m) ==
    <<255, 255, 255 - (TwoTo32Mod(m) \div 256), 255 - (TwoTo32Mod(m) % 256)>>

\* where call i of the behaviour began to read, and how many 32-bit values
\* it read
StartOf(i) == IF i = 1 THEN 0 ELSE dout[i - 1].it.pos
WordsRead(i) == (dout[i].it.pos - StartOf(i)) \div 4

\* C24: for n >= 1, a call of rand_below has read whole 32-bit values, four
\* bytes each, big-endian; every value but the last it read was at or above
\* limit = 2^32 - (2^32 mod (n+1)), the last one was below it, and the
\* result is that value mod (n+1), which lies in [0, n].  The values below
\* limit are 0 .. limit-1 and limit-1 is n mod (n+1): they fall on every
\* result equally often (limit / (n+1) times).
C24_RejectionSampling ==
    \A i \in DOMAIN dout :
        din.n >= 1 =>
            LET m == din.n + 1
                k == WordsRead(i)
            IN  /\ dout[i].it.pos = StartOf(i) + 4 * k
                /\ k >= 1
                /\ \A j \in 1..(k - 1) : AtOrAboveLimit(WordAt(StartOf(i) + 4 * (j - 1)), m)
                /\ ~AtOrAboveLimit(WordAt(StartOf(i) + 4 * (k - 1)), m)
                /\ dout[i].val = ValueMod(WordAt(StartOf(i) + 4 * (k - 1)), m)
                /\ dout[i].val \in 0..din.n
                /\ ~AtOrAboveLimit(LargestBelowLimit(m), m)
                /\ ValueMod(LargestBelowLimit(m), m) = din.n

\* C24 witness: a call that rejected two values, the largest 32-bit value
\* and one just at the limit, and returned the third
C24_Witness ==
    /\ dout # <<>>
    /\ din.n = 93
    /\ din.bytes = <<255, 255, 255, 255, 255, 255, 255, 214>>
    /\ WordsRead(1) = 3
    /\ dout[1].val = 0
---------------------------------------------------------------------------
(* Texts typed by the user (a site, a login): sequences of characters.  A   *)
(* character is a one-character string; the two letters outside ASCII that *)
(* the model uses are written as tokens.                                   *)

U_UML_SMALL == "<u-umlaut>"
U_UML_CAPITAL == "<U-umlaut>"

NonAscii == {U_UML_SMALL, U_UML_CAPITAL}

Whitespace == {" ", "\t"}

\* c.lower()
LowerChar(c) ==
    IF c = U_UML_CAPITAL THEN U_UML_SMALL
    ELSE IF \E i \in DOMAIN CLASSES.upper : CLASSES.upper[i] = c
    THEN CLASSES.lower[CHOOSE i \in DOMAIN CLASSES.upper : CLASSES.upper[i] = c]
    ELSE c

\* s.lower()
lower(s) == [i \in DOMAIN s |-> LowerChar(s[i])]

\* s.lstrip(chars), s.rstrip(chars), s.strip(chars)
RECURSIVE lstrip(_, _)
lstrip(s, chars) ==
    IF s # <<>> /\ Head(s) \in chars THEN lstrip(Tail(s), chars) ELSE s

RECURSIVE rstrip(_, _)
rstrip(s, chars) ==
    IF s # <<>> /\ s[Len(s)] \in chars THEN rstrip(SubSeq(s, 1, Len(s) - 1), chars)
    ELSE s

strip_chars(s, chars) == rstrip(lstrip(s, chars), chars)

\* s.strip()
strip(s) == strip_chars(s, Whitespace)

\* s.find(pat) + 1: where pat first occurs in s, 0 when it does not
find(s, pat) ==
    LET at == {i \in 1..(Len(s) - Len(pat) + 1) : SubSeq(s, i, i + Len(pat) - 1) = pat}
    IN  IF at = {} THEN 0 ELSE CHOOSE i \in at : \A j \in at : i <= j

\* s.rfind(pat) + 1
rfind(s, pat) ==
    LET at == {i \in 1..(Len(s) - Len(pat) + 1) : SubSeq(s, i, i + Len(pat) - 1) = pat}
    IN  IF at = {} THEN 0 ELSE CHOOSE i \in at : \A j \in at : i >= j

\* s.split('.'): the labels, empty ones included
RECURSIVE split(_, _)
split(s, sep) ==
    LET i == find(s, <<sep>>)
    IN  IF i = 0 THEN <<s>>
        ELSE <<SubSeq(s, 1, i - 1)>> \o split(SubSeq(s, i + 1, Len(s)), sep)

\* sep.join(parts)
RECURSIVE join(_, _)
join(parts, sep) ==
    IF parts = <<>> THEN <<>>
    ELSE IF Len(parts) = 1 THEN parts[1]
    ELSE parts[1] \o <<sep>> \o join(Tail(parts), sep)

\* the text up to the first character of `stops`
RECURSIVE TakeUntil(_, _)
TakeUntil(s, stops) ==
    IF s = <<>> \/ Head(s) \in stops THEN <<>>
    ELSE <<Head(s)>> \o TakeUntil(Tail(s), stops)

---------------------------------------------------------------------------
(* Records of the vault keep site ids, logins and class names as texts; the *)
(* derivation encodes them as strings.  Spelling lists the strings whose    *)
(* characters the model knows.                                             *)

Spelling ==
    <<<<"example.com", <<"e", "x", "a", "m", "p", "l", "e", ".", "c", "o",
        "m">>>>,
     <<"xn--mller-kva.de", <<"x", "n", "-", "-", "m", "l", "l", "e", "r",
        "-", "k", "v", "a", ".", "d", "e">>>>,
     <<"u@x", <<"u", "@", "x">>>>,
     <<"you@mail.com", <<"y", "o", "u", "@", "m", "a", "i", "l", ".", "c",
        "o", "m">>>>,
     <<"lower", <<"l", "o", "w", "e", "r">>>>,
     <<"upper", <<"u", "p", "p", "e", "r">>>>,
     <<"digits", <<"d", "i", "g", "i", "t", "s">>>>,
     <<"symbols", <<"s", "y", "m", "b", "o", "l", "s">>>>,
     <<"nosuchclass", <<"n", "o", "s", "u", "c", "h", "c", "l", "a", "s",
        "s">>>>,
     <<"", <<>>>>>>

\* the string a text spells
str(text) ==
    Spelling[CHOOSE i \in DOMAIN Spelling : Spelling[i][2] = text][1]

\* the text of a string
chars(s) ==
    Spelling[CHOOSE i \in DOMAIN Spelling : Spelling[i][1] = s][2]

---------------------------------------------------------------------------
(* Site identity: normalize_site_id *)

\* the characters urllib allows in a scheme
SchemeChars ==
    Range(CLASSES.lower) \cup Range(CLASSES.upper) \cup Range(CLASSES.digits)
        \cup {"+", "-", "."}

\* urlparse(url).hostname, the empty text standing for None: the scheme is
\* what precedes the first ':' when it is a letter followed by scheme
\* characters; a network location follows "//" and ends at '/', '?' or '#';
\* the host name is what follows the last '@', up to the first ':' (or
\* inside brackets), in lower case
urlparse_hostname(url) ==
    LET has_scheme(i) ==
            /\ i > 1
            /\ url[1] \in Range(CLASSES.lower) \cup Range(CLASSES.upper)
            /\ \A k \in 1..(i - 1) : url[k] \in SchemeChars
        hostname(hostinfo, bracket) ==
            IF hostinfo # <<>> /\ hostinfo[1] = "[" /\ bracket > 0
            THEN SubSeq(hostinfo, 2, bracket - 1)
            ELSE TakeUntil(hostinfo, {":"})
        OfHostinfo(hostinfo) == lower(hostname(hostinfo, find(hostinfo, <<"]">>)))
        OfNetloc(netloc) ==
            OfHostinfo(SubSeq(netloc, rfind(netloc, <<"@">>) + 1, Len(netloc)))
        OfRest(rest) ==
            IF ~(Len(rest) >= 2 /\ rest[1] = "/" /\ rest[2] = "/") THEN <<>>
            ELSE OfNetloc(TakeUntil(SubSeq(rest, 3, Len(rest)), {"/", "?", "#"}))
        AfterScheme(i) ==
            OfRest(IF has_scheme(i) THEN SubSeq(url, i + 1, Len(url)) ELSE url)
    IN  AfterScheme(find(url, <<":">>))

\* the Punycode digits of a label (after nameprep), for the labels of the
\* model: "mller-kva" encodes one u-umlaut in second place of "mller"
PunycodeTail(basic) ==
    IF basic = <<"m", "l", "l", "e", "r">> THEN <<"k", "v", "a">> ELSE <<"9", "9">>

\* encodings.idna.ToASCII(label): a label of ASCII is returned as it is; any
\* other is put in lower case (nameprep) and encoded with the prefix "xn--";
\* UnicodeError for an empty label and for one of 64 characters or more
ToASCII(label) ==
    IF Range(label) \cap NonAscii = {}
    THEN IF Len(label) \in 1..63 THEN [err |-> "", val |-> label]
         ELSE [err |-> "UnicodeError", val |-> <<>>]
    ELSE LET Sized(enc) ==
                 IF Len(enc) \in 1..63 THEN [err |-> "", val |-> enc]
                 ELSE [err |-> "UnicodeError", val |-> <<>>]
             Encoded(basic) ==
                 Sized(<<"x", "n", "-", "-">> \o basic \o <<"-">>
                       \o PunycodeTail(basic))
         IN  Encoded(SelectSeq(lower(label), LAMBDA c : c \notin NonAscii))

\* host.encode('idna').decode('ascii').  An ASCII host is returned as it is
\* when every label but the last has 1 to 63 characters and the last has at
\* most 63; any other host is encoded label by label, one trailing dot kept
idna_encode(host) ==
    LET Joined(enc, trailing) ==
            IF \E k \in DOMAIN enc : enc[k].err # ""
            THEN [err |-> "UnicodeError", val |-> <<>>]
            ELSE [err |-> "",
                  val |-> join([k \in DOMAIN enc |-> enc[k].val], ".")
                          \o (IF trailing THEN <<".">> ELSE <<>>)]
        ByLabel(labels, trailing) ==
            Joined([k \in 1..(Len(labels) - (IF trailing THEN 1 ELSE 0)) |->
                       ToASCII(labels[k])],
                   trailing)
        OfLabels(labels) ==
            IF host = <<>> THEN [err |-> "", val |-> <<>>]
            ELSE IF Range(host) \cap NonAscii = {}
            THEN IF /\ \A k \in 1..(Len(labels) - 1) : Len(labels[k]) \in 1..63
                    /\ Len(labels[Len(labels)]) < 64
                 THEN [err |-> "", val |-> host]
                 ELSE [err |-> "UnicodeError", val |-> <<>>]
            ELSE ByLabel(labels, labels[Len(labels)] = <<>>)
    IN  OfLabels(split(host, "."))

\* to_punycode
to_punycode(host) ==
    LET Encoded(e) == IF e.err = "" THEN e.val ELSE host
    IN  strip_chars(lower(Encoded(idna_encode(host))), {"."})

\* the public suffixes tldextract knows, as label sequences (a part of the
\* Public Suffix List)
PublicSuffixes ==
    {<<<<"c","o","m">>>>, <<<<"d","e">>>>, <<<<"u","k">>>>,
     <<<<"c","o">>, <<"u","k">>>>}

\* tldextract.extract(host): the longest public suffix the labels end with,
\* and the label before it; without a known suffix the last label is the
\* domain
tldextract_extract(host) ==
    LET Longest(ks) == IF ks = {} THEN 0 ELSE CHOOSE x \in ks : \A y \in ks : x >= y
        Cut(labels, n, k) ==
            [suffix |-> join(SubSeq(labels, n - k + 1, n), "."),
             domain |-> IF n - k >= 1 THEN labels[n - k] ELSE <<>>]
        Known(labels, n) ==
            Cut(labels, n,
                Longest({k \in 1..n : SubSeq(labels, n - k + 1, n) \in PublicSuffixes}))
        OfLabels(labels) == Known(labels, Len(labels))
    IN  OfLabels(split(host, "."))

\* etld_plus_one: with tldextract the registrable domain, else the last two
\* labels
etld_plus_one(host0) ==
    LET Registrable(ext, host) ==
            IF ext.domain # <<>> /\ ext.suffix # <<>>
            THEN lower(ext.domain \o <<".">> \o ext.suffix)
            ELSE host
        LastTwo(parts, host) ==
            IF Len(parts) >= 2
            THEN lower(join(SubSeq(parts, Len(parts) - 1, Len(parts)), "."))
            ELSE host
        OfHost(host) ==
            IF hasTldextract THEN Registrable(tldextract_extract(host), host)
            ELSE LastTwo(split(host, "."), host)
    IN  OfHost(to_punycode(host0))

\* normalize_site_id
normalize_site_id(site0) ==
    LET Or(hostname, site) == IF hostname # <<>> THEN hostname ELSE site
        HostOf(site) ==
            IF find(site, <<":", "/", "/">>) > 0
            THEN Or(urlparse_hostname(site), site)
            ELSE site
    IN  etld_plus_one(HostOf(strip(site0)))

---------------------------------------------------------------------------
(* Calls of normalize_site_id: the text a user gives for a site, and what  *)
(* the function makes of it and of its own result.  Here din.site is the   *)
(* text and dout the results in order.                                     *)

\* what a site text may start with: nothing, a blank, a scheme, user info
SitePrefixes ==
    {<<>>,
     <<" ">>,
     <<"h", "t", "t", "p", "s", ":", "/", "/">>,
     <<"H", "T", "T", "P", "S", ":", "/", "/">>,
     <<"h", "t", "t", "p", "s", ":", "/", "/", "u", "s", "e", "r", "@">>}

\* host names: plain, with subdomains, of two-label suffix, outside ASCII,
\* of one label, with an empty label
SiteHosts ==
    {<<"e", "x", "a", "m", "p", "l", "e", ".", "c", "o", "m">>,
     <<"L", "o", "g", "i", "n", ".", "E", "x", "a", "m", "p", "l", "e",
      ".", "c", "o", "m">>,
     <<"a", ".", "e", "x", "a", "m", "p", "l", "e", ".", "c", "o", ".",
      "u", "k">>,
     <<"m", U_UML_SMALL, "l", "l", "e", "r", ".", "d", "e">>,
     <<"M", U_UML_CAPITAL, "L", "L", "E", "R", ".", "d", "e">>,
     <<"l", "o", "c", "a", "l", "h", "o", "s", "t">>,
     <<"e", "x", "a", "m", "p", "l", "e", ".", ".", "c", "o", "m">>,
     <<"a", ".", ".", "b">>}

\* what may follow the host: nothing, a dot, a blank, a port and a path
SiteSuffixes ==
    {<<>>,
     <<".">>,
     <<" ">>,
     <<":", "4", "4", "3", "/", "p", "a", "t", "h">>,
     <<"/", "x">>}

SiteInputs == {p \o h \o s : p \in SitePrefixes, h \in SiteHosts, s \in SiteSuffixes}

SInit ==
    /\ din \in {[site |-> s] : s \in SiteInputs}
    /\ dout = <<>>
    /\ hasCipher = TRUE
    /\ hasTldextract \in BOOLEAN
    /\ clock = 0
    /\ names = <<>> /\ inodes = <<>> /\ pc = <<>> /\ loc = <<>>
    /\ edited = <<>>

\* one call of normalize_site_id: of the text given, then of the last result
Normalize ==
    /\ Len(dout) < MaxCalls
    /\ dout' = Append(dout, normalize_site_id(IF dout = <<>> THEN din.site
                                              ELSE dout[Len(dout)]))
    /\ UNCHANGED <<din, hasCipher, hasTldextract, clock, fvars>>

SNext == Normalize

SpecSite == SInit /\ [][SNext]_vars

\* C18: normalize_site_id is idempotent: applied to its own result it
\* returns that result, for every site text.
C18_NormalizeIdempotent ==
    Len(dout) >= 2 => dout[2] = dout[1]

---------------------------------------------------------------------------
(* Primitives of the vault *)

\* os.urandom(n): one of MaxRand byte strings of length n
os_urandom(n) == {[i \in 1..n |-> (i * 37 * k) % 256] : k \in 0..(MaxRand - 1)}

\* now_iso(): the clock, to the second
now_iso == clock

\* faulty variant: the padding is stripped from the encoded text
b64e_nopad(b) == [b64 |-> b, sp |-> "nopad"]

\* b64e: base64.urlsafe_b64encode.  A text is the bytes it stands for and
\* its spelling: "canon" is what the encoder emits (padding kept).
b64e(b) == [b64 |-> b, sp |-> "canon"]

\* b64d: base64.urlsafe_b64decode, which is lenient.  A spelling "alt"
\* (the standard alphabet's '+' '/' for '-' '_', other bits in the unused
\* tail of the last character, characters outside the alphabet, which are
\* skipped, text after the padding) decodes to the same bytes as "canon";
\* text without its padding ("nopad") decodes only when none was due;
\* anything else ("bad") raises binascii.Error.
b64d(s) ==
    IF s.sp \in {"canon", "alt"} THEN [err |-> "", val |-> s.b64]
    ELSE IF s.sp = "nopad" /\ Len(s.b64) % 3 = 0 THEN [err |-> "", val |-> s.b64]
    ELSE [err |-> "binascii.Error", val |-> <<>>]

\* int(x) for a JSON value x: a number n, or a string that spells n
PyInt(n) == [n |-> n, sp |-> "int"]
int(x) == x.n

\* json.dumps(doc).encode('utf-8') and json.loads(bytes.decode('utf-8')).
\* Every value of a vault document is a dict with string keys, a list, a
\* string or an integer, which JSON text holds without loss.
json_dumps(doc) == [json |-> doc]
json_loads(text) == text.json

VAULT_VERSION == "pwgen_vault_v1"
VAULT_AAD == utf8("pwgen|vault|v1")

\* ChaCha20Poly1305(key).encrypt(nonce, plaintext, aad): ciphertext and tag,
\* which hold what was sealed and under what
aead_encrypt(key, nonce, plaintext, aad) ==
    [key |-> key, nonce |-> nonce, aad |-> aad, pt |-> plaintext, intact |-> TRUE]

\* ChaCha20Poly1305(key).decrypt(nonce, ct, aad): the plaintext, ValueError
\* for a nonce that is not 12 bytes, InvalidTag when the tag does not verify
aead_decrypt(key, nonce, ct, aad) ==
    IF Len(nonce) # 12 THEN [err |-> "ValueError", val |-> json_dumps(<<>>)]
    ELSE IF ct.intact /\ ct.key = key /\ ct.nonce = nonce /\ ct.aad = aad
         THEN [err |-> "", val |-> ct.pt]
    ELSE [err |-> "InvalidTag", val |-> json_dumps(<<>>)]

\* vault_encrypt, given the 16 + 12 bytes its two os.urandom calls return
\* (a command's os.urandom calls read one stream)
vault_encrypt(plaintext, master, t, m, p, rnd) ==
    LET salt  == SubSeq(rnd, 1, 16)
        nonce == SubSeq(rnd, 17, 28)
        key   == kdf_argon2id(master, salt, t, m, p)
        ct    == aead_encrypt(key, nonce, plaintext, VAULT_AAD)
    IN  [version    |-> VAULT_VERSION,
         kdf        |-> [alg |-> "argon2id", t |-> PyInt(t), m |-> PyInt(m),
                         p |-> PyInt(p), salt |-> b64e(salt)],
         aead       |-> [alg |-> "chacha20poly1305", nonce |-> b64e(nonce)],
         ciphertext |-> b64e(ct),
         written_at |-> now_iso]

\* faulty variant: the version of the envelope is not looked at
vault_decrypt_any_version(blob, master, aad) ==
    LET salt  == b64d(blob.kdf.salt)
        nonce == b64d(blob.aead.nonce)
        ct    == b64d(blob.ciphertext)
    IN  IF salt.err # "" THEN [err |-> salt.err, val |-> json_dumps(<<>>)]
        ELSE IF nonce.err # "" THEN [err |-> nonce.err, val |-> json_dumps(<<>>)]
        ELSE IF ct.err # "" THEN [err |-> ct.err, val |-> json_dumps(<<>>)]
        ELSE aead_decrypt(kdf_argon2id(master, salt.val, int(blob.kdf.t),
                                       int(blob.kdf.m), int(blob.kdf.p)),
                          nonce.val, ct.val, aad)

\* vault_decrypt with the associated data as a parameter
vault_decrypt_aad(blob, master, aad) ==
    IF blob.version # VAULT_VERSION
    THEN [err |-> "ValueError", val |-> json_dumps(<<>>)]
    ELSE
      LET salt  == b64d(blob.kdf.salt)
          nonce == b64d(blob.aead.nonce)
          ct    == b64d(blob.ciphertext)
      IN  IF salt.err # "" THEN [err |-> salt.err, val |-> json_dumps(<<>>)]
          ELSE IF nonce.err # "" THEN [err |-> nonce.err, val |-> json_dumps(<<>>)]
          ELSE IF ct.err # "" THEN [err |-> ct.err, val |-> json_dumps(<<>>)]
          ELSE aead_decrypt(kdf_argon2id(master, salt.val, int(blob.kdf.t),
                                         int(blob.kdf.m), int(blob.kdf.p)),
                            nonce.val, ct.val, aad)

\* vault_decrypt: the plaintext bytes, or the exception
vault_decrypt(blob, master) == vault_decrypt_aad(blob, master, VAULT_AAD)

---------------------------------------------------------------------------
(* Files.  A file's content is the sequence of the chunks written to it; a *)
(* JSON document is written in NChunks chunks.                             *)

VaultPath == "vault"

\* faulty variant: the save writes in place
tmp_name_in_place(path) == path

\* tmp = path + ".tmp"
tmp_name(path) == IF path = VaultPath THEN "vault.tmp" ELSE path

FileNames == {VaultPath, tmp_name(VaultPath)}

\* os.path.exists(name)
exists(name) == names[name] # 0

\* what a name holds: whether there is a file, and its content
Content(name) ==
    IF exists(name) THEN [present |-> TRUE, data |-> inodes[names[name]]]
    ELSE [present |-> FALSE, data |-> <<>>]

\* json.dump(blob, f, indent=2): the chunks of the text
Chunk(blob, k) == [doc |-> blob, part |-> k]
Chunks(blob) == [k \in 1..NChunks |-> Chunk(blob, k)]

\* the content is one whole document
Complete(content) ==
    /\ Len(content) = NChunks
    /\ \A k \in 1..NChunks : content[k] = Chunk(content[1].doc, k)

\* json.load(f) on a file's content: the document, or JSONDecodeError for
\* an empty, partial or mixed text
json_load(content) ==
    IF Complete(content) THEN [err |-> "", val |-> content[1].doc]
    ELSE [err |-> "JSONDecodeError", val |-> <<>>]

\* vault_load(path): open(path, "r") and json.load
vault_load(name) ==
    IF ~exists(name) THEN [err |-> "FileNotFoundError", val |-> <<>>]
    ELSE json_load(inodes[names[name]])

\* vault_load and vault_decrypt and json.loads, as load_vault_pt,
\* load_blob_and_plaintext and read_plaintext do: the envelope and the
\* document, or the exception
load_blob_and_plaintext(name, master) ==
    LET blob == vault_load(name)
    IN  IF blob.err # "" THEN [err |-> blob.err, blob |-> <<>>, data |-> <<>>]
        ELSE LET pt == vault_decrypt(blob.val, master)
             IN  IF pt.err # "" THEN [err |-> pt.err, blob |-> blob.val, data |-> <<>>]
                 ELSE [err |-> "", blob |-> blob.val, data |-> json_loads(pt.val)]

read_plaintext(name, master) == load_blob_and_plaintext(name, master)

\* make_empty_plaintext
make_empty_plaintext(capsule_b64) ==
    [capsule |-> capsule_b64,
     sites   |-> <<>>,
     created |-> now_iso,
     updated |-> now_iso,
     algo    |-> [version |-> ALGO_VERSION]]

\* os.getpid()
getpid(p) == IF p = "p1" THEN 1 ELSE 2

\* make_capsule, given the 64 bytes os.urandom returns and the process:
\* HKDF-Extract over the random bytes, time and process id, and the hash of
\* the beacon if there is one
make_capsule(osrng, p, extra_beacon) ==
    LET jitter == <<clock, getpid(p)>>
        ikm == IF extra_beacon # "" THEN osrng \o jitter \o sha256(utf8(extra_beacon))
               ELSE osrng \o jitter
    IN  hkdf_extract_sha512(utf8("capsule|sha512-v1"), ikm, 32)

\* Argon2 takes integers: a parameter read back as a string raises TypeError
IsInt(x) == x.sp = "int"

\* faulty variant: every save encrypts under the default parameters
write_plaintext_default_kdf(master, data, t, m, p, rnd) ==
    [err |-> "", data |-> [data EXCEPT !.updated = now_iso],
     blob |-> vault_encrypt(json_dumps([data EXCEPT !.updated = now_iso]), master,
                            DEFAULT_KDF_T, DEFAULT_KDF_M, DEFAULT_KDF_P, rnd)]

\* write_plaintext up to vault_save: the document with its "updated" set and
\* the envelope to save, or the exception
write_plaintext(master, data, t, m, p, rnd) ==
    LET d == [data EXCEPT !.updated = now_iso]
    IN  IF ~(IsInt(t) /\ IsInt(m) /\ IsInt(p))
        THEN [err |-> "TypeError", data |-> d, blob |-> <<>>]
        ELSE [err |-> "", data |-> d,
              blob |-> vault_encrypt(json_dumps(d), master, t.n, m.n, p.n, rnd)]
---------------------------------------------------------------------------
(* Processes.  A process runs one command (a CLI invocation or one POST to *)
(* the web handler) at a time.  A command reads the vault in its first     *)
(* step and, when it writes, goes through the steps of vault_save.         *)

Procs == {"p1", "p2"}
Masters == {"master-A", "master-B"}

NoFile == [present |-> FALSE, data |-> <<>>]
NoEdit == [field |-> "", how |-> ""]

\* the local variables of a command and, at its end, its result: outcome,
\* err (the exception or the message) and at (where it ended).  site and
\* login are the texts given, key the composite key made of them, got what
\* a derivation reported.  before and replaced record what the vault path
\* held when the command began and just before its rename.
NoLoc ==
    [ui |-> "", cmd |-> "", master |-> "", site |-> <<>>, login |-> <<>>,
     key |-> <<>>, mode |-> "", got |-> <<>>,
     blob |-> <<>>, data |-> <<>>, pre |-> <<>>, newblob |-> <<>>,
     fd |-> 0, written |-> 0, before |-> NoFile, replaced |-> NoFile,
     outcome |-> "", err |-> "", at |-> ""]

\* faulty variant: the login comes first
Key_login_first(site_id, login) == login \o <<"|">> \o site_id

\* key = f"{site_id}|{login}"
Key(site_id, login) == site_id \o <<"|">> \o login

\* faulty variant: only a record that was rotated counts as present
HasKey_rotated(sites, key) == key \in DOMAIN sites /\ sites[key].c > 0

\* "key in sites"
HasKey(sites, key) == key \in DOMAIN sites

\* faulty variant: the other records are dropped
PutKey_alone(sites, key, entry) == [k \in {key} |-> entry]

\* sites[key] = entry
PutKey(sites, key, entry) ==
    [k \in (DOMAIN sites) \cup {key} |-> IF k = key THEN entry ELSE sites[k]]

\* the command of p ends: sys.exit, an uncaught exception, a flashed
\* message, or its normal end
Done(p, l, outcome, err) ==
    /\ pc' = [pc EXCEPT ![p] = "done"]
    /\ loc' = [loc EXCEPT ![p] = [l EXCEPT !.outcome = outcome, !.err = err,
                                            !.at = pc[p], !.fd = 0]]

\* the command of p goes on to vault_save
Save(p, l) ==
    /\ pc' = [pc EXCEPT ![p] = "save_open"]
    /\ loc' = [loc EXCEPT ![p] = l]

\* a command begins
Begin(ui, cmd, master) ==
    [NoLoc EXCEPT !.ui = ui, !.cmd = cmd, !.master = master,
                  !.before = Content(VaultPath)]

\* a command on a site and a login begins
BeginOn(ui, cmd, master, site, login) ==
    [Begin(ui, cmd, master) EXCEPT !.site = site, !.login = login]

---------------------------------------------------------------------------
(* vault_save(path, blob), step by step *)

\* inode numbers no name and no open file refers to
InUse == {names[n] : n \in FileNames} \cup {loc[q].fd : q \in Procs}
FreeInodes == {i \in DOMAIN inodes : i \notin InUse}

\* open(tmp, "w"): truncate the file if there is one, else create it
SaveOpen(p) ==
    /\ pc[p] = "save_open"
    /\ LET tmp == tmp_name(VaultPath)
           new == IF FreeInodes # {}
                  THEN CHOOSE i \in FreeInodes : \A j \in FreeInodes : i <= j
                  ELSE Len(inodes) + 1
           ino == IF exists(tmp) THEN names[tmp] ELSE new
       IN  /\ names' = [names EXCEPT ![tmp] = ino]
           /\ inodes' = IF ino <= Len(inodes) THEN [inodes EXCEPT ![ino] = <<>>]
                        ELSE Append(inodes, <<>>)
           /\ loc' = [loc EXCEPT ![p].fd = ino, ![p].written = 0]
    /\ pc' = [pc EXCEPT ![p] = "save_write"]
    /\ UNCHANGED <<dvars, clock, edited>>

\* the content after a write of chunk c at chunk offset k - 1
WriteAt(content, k, c) ==
    [i \in 1..(IF k > Len(content) THEN k ELSE Len(content)) |->
        IF i = k THEN c
        ELSE IF i <= Len(content) THEN content[i]
        ELSE [doc |-> <<>>, part |-> 0]]

\* json.dump(blob, f, indent=2): the next write; the file is closed after
\* the last
SaveWrite(p) ==
    /\ pc[p] = "save_write"
    /\ LET k == loc[p].written + 1
       IN  /\ inodes' = [inodes EXCEPT ![loc[p].fd] =
                            WriteAt(@, k, Chunk(loc[p].newblob, k))]
           /\ IF k = NChunks
              THEN /\ pc' = [pc EXCEPT ![p] = "save_replace"]
                   /\ loc' = [loc EXCEPT ![p].written = k, ![p].fd = 0]
              ELSE /\ pc' = pc
                   /\ loc' = [loc EXCEPT ![p].written = k]
    /\ UNCHANGED <<dvars, clock, names, edited>>

\* os.replace(tmp, path): the name path now refers to the file of tmp;
\* FileNotFoundError when tmp is gone
SaveReplace(p) ==
    /\ pc[p] = "save_replace"
    /\ LET tmp == tmp_name(VaultPath)
       IN  IF ~exists(tmp)
           THEN /\ Done(p, loc[p], "error", "FileNotFoundError")
                /\ UNCHANGED <<names, inodes, edited>>
           ELSE /\ names' = [n \in FileNames |->
                                IF n = VaultPath THEN names[tmp]
                                ELSE IF n = tmp THEN 0 ELSE names[n]]
                /\ pc' = [pc EXCEPT ![p] = "save_chmod"]
                /\ loc' = [loc EXCEPT ![p].replaced = Content(VaultPath)]
                /\ edited' = IF tmp = VaultPath THEN edited ELSE NoEdit
                /\ LET old == names[VaultPath]
                   IN  inodes' = IF old # 0 /\ old # names[tmp]
                                    /\ \A q \in Procs : loc[q].fd # old
                                 THEN [inodes EXCEPT ![old] = <<>>]
                                 ELSE inodes
    /\ UNCHANGED <<dvars, clock>>

\* os.chmod(path, 0o600), errors ignored; vault_save returns.  The web
\* init_vault then reads the vault back (load_blob_and_plaintext).
SaveChmod(p) ==
    /\ pc[p] = "save_chmod"
    /\ LET l == loc[p]
           back == load_blob_and_plaintext(VaultPath, l.master)
       IN  IF l.ui = "web" /\ l.cmd = "init" /\ back.err # ""
           THEN Done(p, l, "saved", back.err)
           ELSE Done(p, l, "saved", "")
    /\ UNCHANGED <<dvars, clock, names, inodes, edited>>

\* the machine stops in the middle of a command: nothing runs any more,
\* the files stay as they are
Crash(p) ==
    /\ pc[p] \notin {"idle", "done", "killed"}
    /\ pc' = [pc EXCEPT ![p] = "killed"]
    /\ loc' = [loc EXCEPT ![p].outcome = "interrupted", ![p].at = pc[p],
                          ![p].fd = 0]
    /\ UNCHANGED <<dvars, clock, names, inodes, edited>>

\* the process is gone
Exit(p) ==
    /\ pc[p] = "done"
    /\ pc' = [pc EXCEPT ![p] = "idle"]
    /\ loc' = [loc EXCEPT ![p] = NoLoc]
    /\ UNCHANGED <<dvars, clock, names, inodes, edited>>
---------------------------------------------------------------------------
(* The commands *)

\* what a command keeps of a load
Loaded(l, ld) == [l EXCEPT !.blob = ld.blob, !.data = ld.data]

\* init --time-cost --mem-cost --parallel
InitKdfArgs == {<<DEFAULT_KDF_T, DEFAULT_KDF_M, DEFAULT_KDF_P>>, <<2, 65536, 1>>}

\* add --profile (none given: ""), or --length --classes --forbid.  forbid
\* is None unless given; main() turns the string given into a list.
AddProfiles == {"", "pin"}
NoForbid == [given |-> FALSE, chars |-> <<>>]
Forbid(cs) == [given |-> TRUE, chars |-> cs]
ArgsMini ==
    [length |-> 4, classes |-> <<"l", "o", "w", "e", "r", ",", "d", "i",
      "g", "i", "t", "s">>,
     forbid |-> Forbid(<<"a", "0">>)]
AddCustom == {ArgsMini}

\* [c.strip() for c in args.classes.split(",")]
parse_classes(text) ==
    LET parts == split(text, ",")
    IN  [i \in DOMAIN parts |-> str(strip(parts[i]))]

\* cmd_add: the policy of the new record
cmd_add_policy(profile, args) ==
    IF profile # "" THEN PROFILES[profile]
    ELSE [length  |-> args.length,
          classes |-> IF args.classes # <<>> THEN parse_classes(args.classes)
                      ELSE <<"lower", "upper", "digits", "symbols">>,
          forbid  |-> IF args.forbid.given /\ args.forbid.chars # <<>>
                      THEN args.forbid.chars
                      ELSE <<"\"", "'", BACKTICK, " ">>]

\* what the users of a behaviour may type: the masters, the sites and
\* logins, the arguments of init, add and get.  A specification of the
\* vault holds its inputs in din.
NoOverride == [length |-> 0, classes |-> <<>>, forbid |-> NoForbid]
WebLength(kind, n) == [kind |-> kind, n |-> n]

VaultInputs ==
    [masters  |-> Masters,
     sites    |-> {chars("example.com")},
     logins   |-> {chars("u@x")},
     kdf      |-> InitKdfArgs,
     profiles |-> AddProfiles,
     custom   |-> AddCustom,
     get      |-> {NoOverride},
     web_length |-> {WebLength("empty", 0)}]

\* cmd_init up to the prompts: refuse when the path exists
CliInitCheck(p) ==
    /\ pc[p] = "idle"
    /\ LET l == Begin("cli", "init", "")
       IN  IF exists(VaultPath)
           THEN Done(p, l, "exit", "vault exists")
           ELSE /\ pc' = [pc EXCEPT ![p] = "init_prompt"]
                /\ loc' = [loc EXCEPT ![p] = l]
    /\ UNCHANGED <<dvars, clock, names, inodes, edited>>

\* cmd_init from the prompts to vault_save
CliInitBuild(p) ==
    /\ pc[p] = "init_prompt"
    /\ \E master1 \in din.masters \cup {""}, master2 \in din.masters \cup {""},
          kdf \in din.kdf, r \in os_urandom(92) :
          LET l == [loc[p] EXCEPT !.master = master1]
              capsule == make_capsule(SubSeq(r, 1, 64), p, "")
              rnd == SubSeq(r, 65, 92)
          IN  IF master1 # master2 \/ master1 = ""
              THEN Done(p, l, "exit", "master mismatch")
              ELSE LET pt   == make_empty_plaintext(b64e(capsule))
                       blob == vault_encrypt(json_dumps(pt), master1,
                                             kdf[1], kdf[2], kdf[3], rnd)
                   IN  Save(p, [l EXCEPT !.data = pt, !.newblob = blob])
    /\ UNCHANGED <<dvars, clock, names, inodes, edited>>

\* index(), action init_vault, up to vault_save
WebInit(p) ==
    /\ pc[p] = "idle"
    /\ \E master \in din.masters \cup {""}, r \in os_urandom(92) :
          LET l == Begin("web", "init", master)
              capsule == make_capsule(SubSeq(r, 1, 64), p, "")
              rnd == SubSeq(r, 65, 92)
              vault_exists == exists(VaultPath)
          IN  IF master = "" THEN Done(p, l, "exit", "no master")
              ELSE IF vault_exists
              THEN LET ld == load_blob_and_plaintext(VaultPath, master)
                   IN  Done(p, Loaded(l, ld), "exit", "vault exists")
              ELSE LET pt   == make_empty_plaintext(b64e(capsule))
                       blob == vault_encrypt(json_dumps(pt), master,
                                             DEFAULT_KDF_T, DEFAULT_KDF_M,
                                             DEFAULT_KDF_P, rnd)
                   IN  Save(p, [l EXCEPT !.data = pt, !.newblob = blob])
    /\ UNCHANGED <<dvars, clock, names, inodes, edited>>

\* the record add stores
new_entry(site_id, login, policy, rseed, notes) ==
    [site_id |-> site_id, login |-> login, v |-> ALGO_VERSION, c |-> 0,
     rseed |-> hex(rseed), policy |-> policy, created |-> now_iso,
     notes |-> notes]

\* cmd_add up to vault_save
CliAdd(p) ==
    /\ pc[p] = "idle"
    /\ \E master \in din.masters, site \in din.sites, login \in din.logins :
          \E ld \in {load_blob_and_plaintext(VaultPath, master)},
             site_id \in {normalize_site_id(site)} :
          LET l  == BeginOn("cli", "add", master, site, login)
              key == Key(site_id, strip(login))
          IN  IF ~exists(VaultPath) THEN Done(p, l, "exit", "no vault")
              ELSE IF ld.err # "" THEN Done(p, Loaded(l, ld), "error", ld.err)
              ELSE IF HasKey(ld.data.sites, key)
              THEN Done(p, [Loaded(l, ld) EXCEPT !.key = key], "exit", "entry exists")
              ELSE \E profile \in din.profiles, custom \in din.custom,
                      rseed \in os_urandom(16), rnd \in os_urandom(28) :
                   LET policy == cmd_add_policy(profile, custom)
                       entry == new_entry(site_id, strip(login), policy, rseed, "")
                       data  == [ld.data EXCEPT
                                    !.sites = PutKey(ld.data.sites, key, entry)]
                       w == write_plaintext(master, data, ld.blob.kdf.t,
                                            ld.blob.kdf.m, ld.blob.kdf.p, rnd)
                       l2 == [Loaded(l, ld) EXCEPT !.key = key, !.data = w.data,
                                                   !.newblob = w.blob]
                   IN  IF w.err # "" THEN Done(p, l2, "error", w.err)
                       ELSE Save(p, l2)
    /\ UNCHANGED <<dvars, clock, names, inodes, edited>>

\* index(), action add_entry, up to vault_save
WebAdd(p) ==
    /\ pc[p] = "idle"
    /\ \E master \in din.masters \cup {""}, site \in din.sites, login \in din.logins :
          \E ld \in {load_blob_and_plaintext(VaultPath, master)},
             site_id \in {normalize_site_id(site)} :
          LET l  == BeginOn("web", "add", master, site, login)
              key == Key(site_id, strip(login))
          IN  IF master = "" THEN Done(p, l, "exit", "no master")
              ELSE IF ~exists(VaultPath) THEN Done(p, l, "exit", "no data")
              ELSE IF ld.err # "" THEN Done(p, Loaded(l, ld), "error", ld.err)
              ELSE IF site = <<>> \/ login = <<>>
              THEN Done(p, Loaded(l, ld), "exit", "no site or login")
              ELSE IF HasKey(ld.data.sites, key)
              THEN Done(p, [Loaded(l, ld) EXCEPT !.key = key], "exit", "entry exists")
              ELSE \E profile_field \in {"pin"},
                      rseed \in os_urandom(16), rnd \in os_urandom(28) :
                   LET entry == new_entry(site_id, strip(login),
                                          PROFILES[profile_field], rseed, "")
                       data  == [ld.data EXCEPT
                                    !.sites = PutKey(ld.data.sites, key, entry)]
                       w == write_plaintext(master, data, ld.blob.kdf.t,
                                            ld.blob.kdf.m, ld.blob.kdf.p, rnd)
                       l2 == [Loaded(l, ld) EXCEPT !.key = key, !.data = w.data,
                                                   !.newblob = w.blob]
                   IN  IF w.err # "" THEN Done(p, l2, "error", w.err)
                       ELSE Save(p, l2)
    /\ UNCHANGED <<dvars, clock, names, inodes, edited>>
\* faulty variant: the counter is left as it was
cmd_rotate_entry_keep_c(entry, mode, fresh) ==
    IF mode = "counter" THEN [entry EXCEPT !.v = ALGO_VERSION]
    ELSE [entry EXCEPT !.rseed = hex(fresh), !.v = ALGO_VERSION]

\* cmd_rotate on the entry: mode "counter" or "rseed"
cmd_rotate_entry(entry, mode, fresh) ==
    IF mode = "counter"
    THEN [entry EXCEPT !.c = entry.c + 1, !.v = ALGO_VERSION]
    ELSE [entry EXCEPT !.rseed = hex(fresh), !.c = 0, !.v = ALGO_VERSION]

\* index() on the entry: action "rotate_c" or "rotate_rseed"
web_rotate_entry(entry, action, fresh) ==
    IF action = "rotate_c"
    THEN [entry EXCEPT !.c = entry.c + 1, !.v = ALGO_VERSION]
    ELSE [entry EXCEPT !.rseed = hex(fresh), !.c = 0, !.v = ALGO_VERSION]

\* cmd_rotate up to vault_save
CliRotate(p) ==
    /\ pc[p] = "idle"
    /\ \E master \in din.masters, site \in din.sites, login \in din.logins,
          mode \in {"counter", "rseed"} :
          \E ld \in {load_blob_and_plaintext(VaultPath, master)},
             site_id \in {normalize_site_id(site)} :
          LET l  == [BeginOn("cli", "rotate", master, site, login) EXCEPT
                        !.mode = mode]
              key == Key(site_id, strip(login))
          IN  IF ~exists(VaultPath) THEN Done(p, l, "exit", "no vault")
              ELSE IF ld.err # "" THEN Done(p, Loaded(l, ld), "error", ld.err)
              ELSE IF ~HasKey(ld.data.sites, key)
              THEN Done(p, [Loaded(l, ld) EXCEPT !.key = key], "exit", "no entry")
              ELSE \E fresh \in os_urandom(16), rnd \in os_urandom(28) :
                   LET pre   == ld.data.sites[key]
                       entry == cmd_rotate_entry(pre, mode, fresh)
                       data  == [ld.data EXCEPT
                                    !.sites = PutKey(ld.data.sites, key, entry)]
                       w == write_plaintext(master, data, ld.blob.kdf.t,
                                            ld.blob.kdf.m, ld.blob.kdf.p, rnd)
                       l2 == [Loaded(l, ld) EXCEPT !.key = key, !.pre = pre,
                                 !.data = w.data, !.newblob = w.blob]
                   IN  /\ mode = "counter" => pre.c < MaxC
                       /\ IF w.err # "" THEN Done(p, l2, "error", w.err)
                          ELSE Save(p, l2)
    /\ UNCHANGED <<dvars, clock, names, inodes, edited>>

\* index(), actions rotate_c and rotate_rseed, up to vault_save
WebRotate(p) ==
    /\ pc[p] = "idle"
    /\ \E master \in din.masters \cup {""}, site \in din.sites, login \in din.logins,
          action \in {"rotate_c", "rotate_rseed"} :
          \E ld \in {load_blob_and_plaintext(VaultPath, master)},
             site_id \in {normalize_site_id(site)} :
          LET l  == [BeginOn("web", "rotate", master, site, login) EXCEPT
                        !.mode = IF action = "rotate_c" THEN "counter" ELSE "rseed"]
              key == Key(site_id, strip(login))
          IN  IF master = "" THEN Done(p, l, "exit", "no master")
              ELSE IF ~exists(VaultPath) THEN Done(p, l, "exit", "no data")
              ELSE IF ld.err # "" THEN Done(p, Loaded(l, ld), "error", ld.err)
              ELSE IF site = <<>> \/ login = <<>>
              THEN Done(p, Loaded(l, ld), "exit", "no site or login")
              ELSE IF ~HasKey(ld.data.sites, key)
              THEN Done(p, [Loaded(l, ld) EXCEPT !.key = key], "exit", "no entry")
              ELSE \E fresh \in os_urandom(16), rnd \in os_urandom(28) :
                   LET pre   == ld.data.sites[key]
                       entry == web_rotate_entry(pre, action, fresh)
                       data  == [ld.data EXCEPT
                                    !.sites = PutKey(ld.data.sites, key, entry)]
                       w == write_plaintext(master, data, ld.blob.kdf.t,
                                            ld.blob.kdf.m, ld.blob.kdf.p, rnd)
                       l2 == [Loaded(l, ld) EXCEPT !.key = key, !.pre = pre,
                                 !.data = w.data, !.newblob = w.blob]
                   IN  /\ action = "rotate_c" => pre.c < MaxC
                       /\ IF w.err # "" THEN Done(p, l2, "error", w.err)
                          ELSE Save(p, l2)
    /\ UNCHANGED <<dvars, clock, names, inodes, edited>>

\* cmd_list: load_vault_pt and print
CliList(p) ==
    /\ pc[p] = "idle"
    /\ \E master \in din.masters :
          \E ld \in {load_blob_and_plaintext(VaultPath, master)} :
          LET l  == Begin("cli", "list", master)
          IN  IF ~exists(VaultPath) THEN Done(p, l, "exit", "no vault")
              ELSE IF ld.err # "" THEN Done(p, Loaded(l, ld), "error", ld.err)
              ELSE Done(p, Loaded(l, ld), "read", "")
    /\ UNCHANGED <<dvars, clock, names, inodes, edited>>

\* index(), action list: the load, its exception flashed
WebList(p) ==
    /\ pc[p] = "idle"
    /\ \E master \in din.masters \cup {""} :
          \E ld \in {load_blob_and_plaintext(VaultPath, master)} :
          LET l  == Begin("web", "list", master)
          IN  IF master = "" THEN Done(p, l, "exit", "no master")
              ELSE IF ~exists(VaultPath) THEN Done(p, l, "exit", "no data")
              ELSE IF ld.err # "" THEN Done(p, Loaded(l, ld), "error", ld.err)
              ELSE Done(p, Loaded(l, ld), "read", "")
    /\ UNCHANGED <<dvars, clock, names, inodes, edited>>

\* cmd_get: the policy of this derivation, the stored one with the
\* overrides given (--length unless absent or 0, --classes unless absent or
\* empty, --forbid unless absent)
cmd_get_policy(policy, args) ==
    LET p1 == OverrideLength(policy, args.length)
        p2 == IF args.classes # <<>>
              THEN [p1 EXCEPT !.classes = parse_classes(args.classes)]
              ELSE p1
    IN  IF args.forbid.given THEN [p2 EXCEPT !.forbid = args.forbid.chars] ELSE p2

\* index(), action generate: the length field overrides the stored length
\* when it is an integer of 4..128; any other is refused with a message and
\* the derivation runs with the stored length
web_generate_policy(policy, length_field) ==
    IF length_field.kind = "int" /\ length_field.n \in 4..128
    THEN [policy EXCEPT !.length = length_field.n]
    ELSE policy

\* index(), action generate, after the derivation: a ValueError is flashed,
\* any other exception is not caught; else the password is shown, and the
\* counter that was used when it is not the stored one
web_generate_report(res, stored_c) ==
    IF res.err = "ValueError"
    THEN [exit |-> 0, pwd |-> <<>>, message |-> res.err, rotate_hint |-> FALSE,
          used_c_note |-> FALSE]
    ELSE IF res.err # ""
    THEN [exit |-> 500, pwd |-> <<>>, message |-> "traceback",
          rotate_hint |-> FALSE, used_c_note |-> FALSE]
    ELSE [exit |-> 0, pwd |-> res.pwd, message |-> "", rotate_hint |-> FALSE,
          used_c_note |-> res.used_c # stored_c]

\* the call of gen_password_with_retries in cmd_get and in index()
derive_entry(master, capsule, site_id, login, policy, entry) ==
    gen_password_with_retries(
        [master |-> master, capsule |-> capsule, site_id |-> str(site_id),
         login |-> str(login), policy |-> policy, v |-> entry.v, c |-> entry.c,
         rseed |-> fromhex(entry.rseed)],
        DEFAULT_MAX_TRIES)

\* faulty variant: the counter the retry loop used is stored in the record
cmd_get_end_store_used_c(p, l, res) ==
    IF res.err = "" /\ res.used_c # l.pre.c
    THEN LET entry == [l.pre EXCEPT !.c = res.used_c]
             data  == [l.data EXCEPT !.sites = PutKey(l.data.sites, l.key, entry)]
             w == write_plaintext(l.master, data, l.blob.kdf.t, l.blob.kdf.m,
                                  l.blob.kdf.p, CHOOSE r \in os_urandom(28) : TRUE)
         IN  Save(p, [l EXCEPT !.data = w.data, !.newblob = w.blob])
    ELSE IF res.err = "" THEN Done(p, l, "read", "")
    ELSE IF res.err = "ValueError" THEN Done(p, l, "exit", res.err)
    ELSE Done(p, l, "error", res.err)

\* cmd_get and index() after the derivation: the command ends, nothing is
\* written
cmd_get_end(p, l, res) ==
    IF res.err = "" THEN Done(p, l, "read", "")
    ELSE IF res.err = "ValueError" THEN Done(p, l, "exit", res.err)
    ELSE Done(p, l, "error", res.err)

\* cmd_get
CliGet(p) ==
    /\ pc[p] = "idle"
    /\ \E master \in din.masters, site \in din.sites, login \in din.logins,
          args \in din.get :
          \E ld \in {load_blob_and_plaintext(VaultPath, master)},
             site_id \in {normalize_site_id(site)} :
          LET l  == BeginOn("cli", "get", master, site, login)
              key == Key(site_id, strip(login))
          IN  IF ~exists(VaultPath) THEN Done(p, l, "exit", "no vault")
              ELSE IF ld.err # "" THEN Done(p, Loaded(l, ld), "error", ld.err)
              ELSE IF b64d(ld.data.capsule).err # ""
              THEN Done(p, Loaded(l, ld), "error", b64d(ld.data.capsule).err)
              ELSE IF ~HasKey(ld.data.sites, key)
              THEN Done(p, [Loaded(l, ld) EXCEPT !.key = key], "exit", "no entry")
              ELSE \E res \in {derive_entry(master, b64d(ld.data.capsule).val,
                                             site_id, strip(login),
                                             cmd_get_policy(ld.data.sites[key].policy,
                                                            args),
                                             ld.data.sites[key])} :
                   LET entry  == ld.data.sites[key]
                       l2  == [Loaded(l, ld) EXCEPT !.key = key, !.pre = entry,
                                 !.mode = IF args = NoOverride THEN "" ELSE "override",
                                 !.got = [res |-> res,
                                          out |-> cmd_get_report(res, entry.c)]]
                   IN  cmd_get_end(p, l2, res)
    /\ UNCHANGED <<dvars, clock, names, inodes, edited>>

\* index(), action generate
WebGenerate(p) ==
    /\ pc[p] = "idle"
    /\ \E master \in din.masters \cup {""}, site \in din.sites,
          login \in din.logins, length_field \in din.web_length :
          \E ld \in {load_blob_and_plaintext(VaultPath, master)},
             site_id \in {normalize_site_id(site)} :
          LET l  == BeginOn("web", "generate", master, site, login)
              key == Key(site_id, strip(login))
          IN  IF master = "" THEN Done(p, l, "exit", "no master")
              ELSE IF ~exists(VaultPath) THEN Done(p, l, "exit", "no data")
              ELSE IF ld.err # "" THEN Done(p, Loaded(l, ld), "error", ld.err)
              ELSE IF site = <<>> \/ login = <<>>
              THEN Done(p, Loaded(l, ld), "exit", "no site or login")
              ELSE IF ~HasKey(ld.data.sites, key)
              THEN Done(p, [Loaded(l, ld) EXCEPT !.key = key], "exit", "no entry")
              ELSE IF b64d(ld.data.capsule).err # ""
              THEN Done(p, [Loaded(l, ld) EXCEPT !.key = key], "error",
                        b64d(ld.data.capsule).err)
              ELSE \E res \in {derive_entry(master, b64d(ld.data.capsule).val,
                                             site_id, strip(login),
                                             web_generate_policy(
                                                 ld.data.sites[key].policy,
                                                 length_field),
                                             ld.data.sites[key])} :
                   LET entry  == ld.data.sites[key]
                       policy == web_generate_policy(entry.policy, length_field)
                       l2  == [Loaded(l, ld) EXCEPT !.key = key, !.pre = entry,
                                 !.mode = IF policy = entry.policy THEN ""
                                          ELSE "override",
                                 !.got = [res |-> res,
                                          out |-> web_generate_report(res, entry.c)]]
                   IN  cmd_get_end(p, l2, res)
    /\ UNCHANGED <<dvars, clock, names, inodes, edited>>

\* cmd_show: the record is printed
CliShow(p) ==
    /\ pc[p] = "idle"
    /\ \E master \in din.masters, site \in din.sites, login \in din.logins :
          \E ld \in {load_blob_and_plaintext(VaultPath, master)},
             site_id \in {normalize_site_id(site)} :
          LET l  == BeginOn("cli", "show", master, site, login)
              key == Key(site_id, strip(login))
          IN  IF ~exists(VaultPath) THEN Done(p, l, "exit", "no vault")
              ELSE IF ld.err # "" THEN Done(p, Loaded(l, ld), "error", ld.err)
              ELSE IF ~HasKey(ld.data.sites, key)
              THEN Done(p, [Loaded(l, ld) EXCEPT !.key = key], "exit", "no entry")
              ELSE Done(p, [Loaded(l, ld) EXCEPT !.key = key,
                                                 !.pre = ld.data.sites[key]],
                        "read", "")
    /\ UNCHANGED <<dvars, clock, names, inodes, edited>>

\* vault_save from its first step to its return, when nothing interrupts it
\* and no other process runs: the temporary file is opened and written, the
\* path is renamed onto it, and the web init_vault reads the vault back
VaultSave(p) ==
    /\ pc[p] = "save_open"
    /\ LET l   == loc[p]
           tmp == tmp_name(VaultPath)
           new == IF FreeInodes # {}
                  THEN CHOOSE i \in FreeInodes : \A j \in FreeInodes : i <= j
                  ELSE Len(inodes) + 1
           ino == IF exists(tmp) THEN names[tmp] ELSE new
           old == names[VaultPath]
           written == IF ino <= Len(inodes)
                      THEN [inodes EXCEPT ![ino] = Chunks(l.newblob)]
                      ELSE Append(inodes, Chunks(l.newblob))
           back == vault_decrypt(l.newblob, l.master)
       IN  /\ names' = [n \in FileNames |->
                           IF n = VaultPath THEN ino
                           ELSE IF n = tmp THEN 0 ELSE names[n]]
           /\ inodes' = IF old # 0 /\ old # ino THEN [written EXCEPT ![old] = <<>>]
                        ELSE written
           /\ edited' = IF tmp = VaultPath THEN edited ELSE NoEdit
           /\ pc' = [pc EXCEPT ![p] = "done"]
           /\ loc' = [loc EXCEPT ![p] =
                        [l EXCEPT !.replaced = Content(VaultPath),
                                  !.written = NChunks, !.fd = 0,
                                  !.outcome = "saved", !.at = "save_chmod",
                                  !.err = IF l.ui = "web" /\ l.cmd = "init"
                                          THEN back.err ELSE ""]]
    /\ UNCHANGED <<dvars, clock>>

---------------------------------------------------------------------------
(* The vault file edited outside the program: one field of the envelope    *)
(* altered.                                                                *)

\* other bytes of the same length
OtherBytes(b) == [i \in DOMAIN b |-> (b[i] + 1) % 256]

\* a base64 text altered: to other bytes, to another spelling of the same
\* bytes, to text that does not decode
AlterText(s, how) ==
    CASE how = "value"       -> b64e(OtherBytes(s.b64))
      [] how = "respell"     -> [s EXCEPT !.sp = "alt"]
      [] how = "undecodable" -> [s EXCEPT !.sp = "bad"]

\* a number altered: to another number, or to the string that spells it
AlterInt(x, how) ==
    IF how = "value" THEN PyInt(x.n + 1) ELSE [x EXCEPT !.sp = "str"]

Edits ==
    ({"version", "kdf.alg", "aead.alg", "written_at"} \X {"value"})
    \cup ({"kdf.t", "kdf.m", "kdf.p"} \X {"value", "respell"})
    \cup ({"kdf.salt", "aead.nonce", "ciphertext"}
            \X {"value", "respell", "undecodable"})

Alter(blob, field, how) ==
    CASE field = "version"    -> [blob EXCEPT !.version = "pwgen_vault_v2"]
      [] field = "kdf.alg"    -> [blob EXCEPT !.kdf.alg = "scrypt"]
      [] field = "aead.alg"   -> [blob EXCEPT !.aead.alg = "aes256gcm"]
      [] field = "written_at" -> [blob EXCEPT !.written_at = @ + 1]
      [] field = "kdf.t"      -> [blob EXCEPT !.kdf.t = AlterInt(@, how)]
      [] field = "kdf.m"      -> [blob EXCEPT !.kdf.m = AlterInt(@, how)]
      [] field = "kdf.p"      -> [blob EXCEPT !.kdf.p = AlterInt(@, how)]
      [] field = "kdf.salt"   -> [blob EXCEPT !.kdf.salt = AlterText(@, how)]
      [] field = "aead.nonce" -> [blob EXCEPT !.aead.nonce = AlterText(@, how)]
      [] field = "ciphertext" ->
            IF how = "value"
            THEN [blob EXCEPT !.ciphertext = b64e([@.b64 EXCEPT !.intact = FALSE])]
            ELSE [blob EXCEPT !.ciphertext = AlterText(@, how)]

\* someone edits one field of the saved envelope in place
Edit ==
    /\ exists(VaultPath)
    /\ edited = NoEdit
    /\ Complete(inodes[names[VaultPath]])
    /\ \A q \in Procs : pc[q] = "idle"
    /\ \E e \in Edits :
          /\ inodes' = [inodes EXCEPT ![names[VaultPath]] =
                            Chunks(Alter(@[1].doc, e[1], e[2]))]
          /\ edited' = [field |-> e[1], how |-> e[2]]
    /\ UNCHANGED <<dvars, clock, names, pc, loc>>

---------------------------------------------------------------------------
(* Specifications of the vault *)

VInit ==
    /\ din = VaultInputs
    /\ dout = <<>>
    /\ hasCipher = TRUE
    /\ hasTldextract = FALSE
    /\ clock = 0
    /\ names = [n \in FileNames |-> 0]
    /\ inodes = <<>>
    /\ pc = [p \in Procs |-> "idle"]
    /\ loc = [p \in Procs |-> NoLoc]
    /\ edited = NoEdit

\* one process: every command, interrupted anywhere
VNext ==
    \/ CliInitCheck("p1") \/ CliInitBuild("p1") \/ WebInit("p1")
    \/ CliAdd("p1") \/ WebAdd("p1") \/ CliRotate("p1") \/ WebRotate("p1")
    \/ CliList("p1") \/ WebList("p1")
    \/ SaveOpen("p1") \/ SaveWrite("p1") \/ SaveReplace("p1") \/ SaveChmod("p1")
    \/ Crash("p1") \/ Exit("p1")

SpecVault == VInit /\ [][VNext]_vars

\* one process that creates and opens the vault as time passes, and the
\* file edited
ENext ==
    \/ CliInitCheck("p1") \/ CliInitBuild("p1") \/ WebInit("p1")
    \/ CliList("p1") \/ WebList("p1")
    \/ SaveOpen("p1") \/ SaveWrite("p1") \/ SaveReplace("p1") \/ SaveChmod("p1")
    \/ Exit("p1")
    \/ Edit
    \/ Tick

SpecEdit == VInit /\ [][ENext]_vars

\* two processes that create the vault: init on the command line, and
\* init_vault posted to the web handler
RNext ==
    \/ CliInitCheck("p1") \/ CliInitBuild("p1") \/ WebInit("p2")
    \/ \E p \in Procs :
          \/ SaveOpen(p) \/ SaveWrite(p) \/ SaveReplace(p) \/ SaveChmod(p)
          \/ Exit(p)

SpecRace == VInit /\ [][RNext]_vars

\* one process and one record: the commands on records with what users
\* type (a URL for the site, blanks around the login, custom policies,
\* overrides), every save run to its end
ArgsShort ==
    [length |-> 3, classes |-> <<"d", "i", "g", "i", "t", "s">>, forbid |-> Forbid(<<>>)]
GetOverride ==
    [length |-> 5, classes |-> <<"l", "o", "w", "e", "r", ",", "d", "i",
        "g", "i", "t", "s">>,
     forbid |-> Forbid(<<"a", "0">>)]

RecordInputs ==
    [masters  |-> {"master-A"},
     sites    |-> {chars("example.com"),
                   <<" ", "h", "t", "t", "p", "s", ":", "/", "/", "L", "o",
                     "g", "i", "n", ".", "E", "x", "a", "m", "p", "l", "e",
                     ".", "c", "o", "m", "/", "x">>},
     logins   |-> {<<" ", "u", "@", "x", " ">>},
     kdf      |-> {<<DEFAULT_KDF_T, DEFAULT_KDF_M, DEFAULT_KDF_P>>},
     profiles |-> AddProfiles,
     custom   |-> {ArgsMini, ArgsShort},
     get      |-> {NoOverride, GetOverride},
     web_length |-> {WebLength("empty", 0), WebLength("int", 3),
                     WebLength("int", 6)}]

RecInit ==
    /\ din = RecordInputs
    /\ dout = <<>>
    /\ hasCipher = TRUE
    /\ hasTldextract = FALSE
    /\ clock = 0
    /\ names = [n \in FileNames |-> 0]
    /\ inodes = <<>>
    /\ pc = [p \in Procs |-> "idle"]
    /\ loc = [p \in Procs |-> NoLoc]
    /\ edited = NoEdit

RecNext ==
    \/ CliInitCheck("p1") \/ CliInitBuild("p1") \/ WebInit("p1")
    \/ CliAdd("p1") \/ WebAdd("p1") \/ CliRotate("p1") \/ WebRotate("p1")
    \/ CliGet("p1") \/ WebGenerate("p1") \/ CliShow("p1")
    \/ CliList("p1") \/ WebList("p1")
    \/ VaultSave("p1") \/ Exit("p1")

SpecRecords == RecInit /\ [][RecNext]_vars

\* one process on a vault that init has created, the commands of the
\* command line and the rotations of the web page, every save run to its
\* end: on two records of one site, all
\* within one second; or on one record, with time passing between the
\* commands
PairInputs ==
    [masters  |-> {"master-A"},
     sites    |-> {chars("example.com")},
     logins   |-> {chars("u@x"), chars("you@mail.com")},
     kdf      |-> {<<DEFAULT_KDF_T, DEFAULT_KDF_M, DEFAULT_KDF_P>>},
     profiles |-> {"pin"},
     custom   |-> {ArgsMini},
     get      |-> {NoOverride},
     web_length |-> {WebLength("empty", 0)}]

LifeInputs == [PairInputs EXCEPT !.logins = {chars("u@x")}]

\* a second passes between two commands
Pause ==
    /\ din = LifeInputs
    /\ \A p \in Procs : pc[p] = "idle"
    /\ Tick

\* the envelope init saves at second 0 when os.urandom returns zeros
EmptyVault(master) ==
    LET r == [i \in 1..92 |-> 0]
        capsule == make_capsule(SubSeq(r, 1, 64), "p1", "")
        pt == make_empty_plaintext(b64e(capsule))
    IN  vault_encrypt(json_dumps(pt), master, DEFAULT_KDF_T, DEFAULT_KDF_M,
                      DEFAULT_KDF_P, SubSeq(r, 65, 92))

\* init has created the vault
PairInit ==
    /\ din \in {PairInputs, LifeInputs}
    /\ dout = <<>>
    /\ hasCipher = TRUE
    /\ hasTldextract = FALSE
    /\ clock = 0
    /\ names = [n \in FileNames |-> IF n = VaultPath THEN 1 ELSE 0]
    /\ inodes = <<Chunks(EmptyVault("master-A"))>>
    /\ pc = [p \in Procs |-> "idle"]
    /\ loc = [p \in Procs |-> NoLoc]
    /\ edited = NoEdit

PairNext ==
    \/ CliAdd("p1") \/ CliRotate("p1") \/ WebRotate("p1")
    \/ CliGet("p1") \/ CliShow("p1") \/ CliList("p1")
    \/ VaultSave("p1") \/ Exit("p1")
    \/ Pause

SpecPair == PairInit /\ [][PairNext]_vars
---------------------------------------------------------------------------
(* Claims about the vault *)

Saving == {"save_open", "save_write", "save_replace", "save_chmod"}

\* the envelope was sealed under this master
SealedFor(blob, master) ==
    \E r \in os_urandom(92), kdf \in InitKdfArgs :
        blob.ciphertext.b64.key =
            kdf_argon2id(master, SubSeq(r, 65, 80), kdf[1], kdf[2], kdf[3])

\* the document an envelope was sealed around
SealedDoc(blob) == json_loads(blob.ciphertext.b64.pt)

\* a command of p has ended after it loaded the vault file
Opened(p) ==
    /\ pc[p] = "done"
    /\ loc[p].cmd = "list"
    /\ loc[p].outcome \in {"read", "error"}

C6_AuthFailure ==
    \A p \in Procs :
        (/\ Opened(p)
         /\ \/ ~SealedFor(loc[p].blob, loc[p].master)
            \/ edited.field \in {"ciphertext", "aead.nonce"})
        => /\ loc[p].err = "InvalidTag"
           /\ loc[p].data = <<>>
           /\ Content(VaultPath) = loc[p].before

\* the edits that change what vault_decrypt reads
Decisive(e) ==
    \/ e.field = "version"
    \/ e.field \in {"kdf.t", "kdf.m", "kdf.p"} /\ e.how = "value"
    \/ e.field \in {"kdf.salt", "aead.nonce", "ciphertext"}
         /\ e.how \in {"value", "undecodable"}

OtherAADs == {utf8("pwgen|drbg"), utf8("pwgen|"), <<>>}

\* C7 (as claimed): after any single field of the envelope was altered, an
\* open under the right master fails.
C7_AnyFieldAltered ==
    \A p \in Procs :
        (/\ Opened(p)
         /\ SealedFor(loc[p].blob, loc[p].master)
         /\ edited # NoEdit)
        => loc[p].err # ""

\* C7 (amended): after one field was altered, an open under the right
\* master fails exactly when the edit changed what vault_decrypt reads: the
\* version, the integer value of kdf.t, kdf.m or kdf.p, or the bytes that
\* kdf.salt, aead.nonce or ciphertext decode to (or whether they decode).
\* After any other edit (kdf.alg, aead.alg, written_at, a number spelled as
\* a string, another base64 spelling of the same bytes) the open returns the
\* sealed document.  Decrypting a saved envelope with other associated data
\* than "pwgen|vault|v1" fails.
C7_DecisiveFieldAltered ==
    /\ \A p \in Procs :
        (/\ Opened(p)
         /\ SealedFor(loc[p].blob, loc[p].master)
         /\ edited # NoEdit)
        => IF Decisive(edited) THEN loc[p].err # "" /\ loc[p].data = <<>>
           ELSE loc[p].err = "" /\ loc[p].data = SealedDoc(loc[p].blob)
    /\ \A p \in Procs : \A aad \in OtherAADs :
        (Opened(p) /\ loc[p].err = "")
        => vault_decrypt_aad(loc[p].blob, loc[p].master, aad).err = "InvalidTag"

C7_Witness ==
    \E p \in Procs :
        /\ Opened(p)
        /\ SealedFor(loc[p].blob, loc[p].master)
        /\ edited = [field |-> "kdf.salt", how |-> "value"]
        /\ loc[p].err = "InvalidTag"

\* C8: atomic save.  What the vault path holds changes only in the rename
\* step of a save, from no file or one whole envelope to one whole envelope;
\* a save interrupted before its rename leaves the path holding what it held
\* when the command began.
C8_AtomicSave ==
    /\ [][Content(VaultPath)' # Content(VaultPath) =>
            /\ \E p \in Procs : pc[p] = "save_replace" /\ pc'[p] = "save_chmod"
            /\ Content(VaultPath).present => Complete(Content(VaultPath).data)
            /\ Content(VaultPath)'.present
            /\ Complete(Content(VaultPath)'.data)]_vars
    /\ [](\A p \in Procs :
            (pc[p] = "killed" /\ loc[p].at \in {"save_open", "save_write", "save_replace"})
            => Content(VaultPath) = loc[p].before)

C8_Witness ==
    \E p \in Procs :
        /\ pc[p] = "killed" /\ loc[p].at = "save_write" /\ loc[p].written = 1
        /\ loc[p].before.present
        /\ Content(VaultPath) = loc[p].before

\* C9 (as claimed): init never replaces a vault: the rename of an init finds
\* no file at the vault path.
C9_InitNeverReplaces ==
    \A p \in Procs : loc[p].cmd = "init" => ~loc[p].replaced.present

\* the entry of a key in what the vault path held when the command began
EntryBefore(p) ==
    LET blob == json_load(loc[p].before.data).val
    IN  json_loads(vault_decrypt(blob, loc[p].master).val).sites[loc[p].key]

\* C10: once a rotate has saved, the stored record has, in mode counter,
\* the counter of the record before plus one and the same rseed; in mode
\* rseed, counter 0 and 16 bytes of os.urandom as rseed.  The same on the
\* command line and on the web.
C10_CounterMonotone ==
    \A p \in Procs :
        (pc[p] = "done" /\ loc[p].outcome = "saved" /\ loc[p].cmd = "rotate") =>
            LET stored == read_plaintext(VaultPath, loc[p].master)
                e   == stored.data.sites[loc[p].key]
                old == EntryBefore(p)
            IN  /\ stored.err = ""
                /\ loc[p].mode = "counter" =>
                      e.c = old.c + 1 /\ e.c > old.c /\ e.rseed = old.rseed
                /\ loc[p].mode = "rseed" =>
                      e.c = 0 /\ fromhex(e.rseed) \in os_urandom(16)

C10_Witness ==
    \E p \in Procs :
        /\ pc[p] = "done" /\ loc[p].outcome = "saved" /\ loc[p].cmd = "rotate"
        /\ loc[p].ui = "web" /\ loc[p].mode = "rseed"
        /\ EntryBefore(p).c > 0
        /\ EntryBefore(p).rseed # loc[p].data.sites[loc[p].key].rseed

\* kdf.t, kdf.m and kdf.p of the envelope the vault path holds
KdfParams ==
    LET blob == vault_load(VaultPath).val
    IN  <<blob.kdf.t, blob.kdf.m, blob.kdf.p>>

\* the add or rotate of p has saved
Saved(p) ==
    pc[p] = "done" /\ loc[p].cmd \in {"add", "rotate"} /\ loc[p].outcome = "saved"

\* the envelope p saved has a salt and a nonce that os.urandom gave to this
\* save, and the parameters of the envelope p read
FreshlySalted(p) ==
    /\ vault_load(VaultPath).val = loc[p].newblob
    /\ \E r \in os_urandom(28) :
          /\ loc[p].newblob.kdf.salt = b64e(SubSeq(r, 1, 16))
          /\ loc[p].newblob.aead.nonce = b64e(SubSeq(r, 17, 28))
          /\ loc[p].newblob =
                vault_encrypt(json_dumps(loc[p].data), loc[p].master,
                              int(loc[p].blob.kdf.t), int(loc[p].blob.kdf.m),
                              int(loc[p].blob.kdf.p), r)

\* C21: once the vault exists, no step changes kdf.t, kdf.m and kdf.p of
\* the envelope at the vault path (they stay as init chose them), and an
\* add or rotate that has saved has written an envelope with a salt and a
\* nonce drawn for that save.
C21_KdfFixed ==
    [][/\ (exists(VaultPath) /\ vault_load(VaultPath).err = "") =>
             /\ (exists(VaultPath) /\ vault_load(VaultPath).err = "")'
             /\ KdfParams' = KdfParams
       /\ \A p \in Procs : (Saved(p) => FreshlySalted(p))'
      ]_vars

\* C21 witness: a vault made with other parameters than the default ones, a
\* record added, and its rotate saved under a salt other than the one read
C21_Witness ==
    \E p \in Procs :
        /\ Saved(p) /\ loc[p].cmd = "rotate"
        /\ KdfParams = <<PyInt(2), PyInt(65536), PyInt(1)>>
        /\ loc[p].blob.kdf = [loc[p].newblob.kdf EXCEPT !.salt = loc[p].blob.kdf.salt]
        /\ loc[p].newblob.kdf.salt # loc[p].blob.kdf.salt
        /\ loc[p].newblob.aead.nonce # loc[p].blob.aead.nonce
\* C22 (as claimed): with concurrent saves, the vault path holds in every
\* state, when it holds a file, one whole envelope, every chunk of it written
\* by the same save; never an empty, partial or mixed document.
C22_ConcurrentSavesAtomic ==
    Content(VaultPath).present => Complete(Content(VaultPath).data)

---------------------------------------------------------------------------
(* Claims about the records *)

\* the records of the document the vault path held when the command of p
\* began
SitesBefore(p) ==
    LET blob == json_load(loc[p].before.data).val
    IN  json_loads(vault_decrypt(blob, loc[p].master).val).sites

\* the records of the document the vault path holds, opened with master
SitesNow(master) == read_plaintext(VaultPath, master).data.sites

\* the command of p was refused with this message before it wrote anything
Refused(p, message) ==
    /\ pc[p] = "done"
    /\ loc[p].outcome = "exit" /\ loc[p].err = message
    /\ loc[p].at = "idle"
    /\ loc[p].newblob = <<>> /\ loc[p].replaced = NoFile
    /\ Content(VaultPath) = loc[p].before

OnRecord == {"rotate", "get", "show", "generate"}

\* C11 (as claimed): after a rotate in mode counter has saved, get on the
\* stored record returns another password than get returned on the record
\* before the rotate, when the candidates of the counters the two retry
\* loops can reach are pairwise distinct.
C11_RotationChangesPassword ==
    \A p \in Procs :
        (/\ pc[p] = "done" /\ loc[p].outcome = "saved"
         /\ loc[p].cmd = "rotate" /\ loc[p].mode = "counter") =>
            LET old == loc[p].pre
                new == SitesNow(loc[p].master)[loc[p].key]
                capsule == b64d(loc[p].data.capsule).val
                before == derive_entry(loc[p].master, capsule, old.site_id,
                                       old.login, old.policy, old)
                after  == derive_entry(loc[p].master, capsule, new.site_id,
                                       new.login, new.policy, new)
                candidates ==
                    [c \in old.c..(new.c + DEFAULT_MAX_TRIES - 1) |->
                        gen_password(loc[p].master, capsule, str(old.site_id),
                                     str(old.login), old.policy, old.v, c,
                                     fromhex(old.rseed))]
            IN  (/\ before.err = "" /\ after.err = ""
                 /\ \A c \in DOMAIN candidates : candidates[c].err = ""
                 /\ \A c, d \in DOMAIN candidates :
                        c # d => candidates[c].pwd # candidates[d].pwd)
                => before.pwd # after.pwd

\* C12: a command that finds its composite key in the wrong state ends
\* before any write.  add on a key the vault holds is refused ("entry
\* exists"); rotate, get, show and generate on a key the vault does not hold
\* are refused ("no entry"); the command never enters vault_save and the
\* vault path holds what it held when the command began.
C12_PresenceErrors ==
    \A p \in Procs :
        (pc[p] # "idle" /\ loc[p].key # <<>>) =>
            /\ (loc[p].cmd = "add" /\ loc[p].key \in DOMAIN SitesBefore(p))
                  => Refused(p, "entry exists")
            /\ (loc[p].cmd \in OnRecord /\ loc[p].key \notin DOMAIN SitesBefore(p))
                  => Refused(p, "no entry")

C12_Witness ==
    \E p \in Procs :
        /\ Refused(p, "entry exists")
        /\ loc[p].ui = "cli" /\ loc[p].cmd = "add"
        /\ SitesBefore(p)[loc[p].key].c > 0
        /\ SitesNow(loc[p].master) = SitesBefore(p)

\* C15 (as claimed): every record of a saved vault has a policy with a
\* length in [4,128], classes, and a final alphabet that is not empty, a
\* counter c >= 0 and an rseed of 16 bytes.
C15_StoredPolicyValid ==
    \A p \in Procs :
        (pc[p] = "done" /\ loc[p].outcome = "saved") =>
            LET sites == SitesNow(loc[p].master)
            IN  \A k \in DOMAIN sites :
                    /\ sites[k].policy.classes # <<>>
                    /\ ValidPolicy(sites[k].policy)
                    /\ sites[k].c >= 0
                    /\ Len(fromhex(sites[k].rseed)) = 16

ReadOnly == {"get", "generate", "list", "show"}

\* C17: get, generate, list and show never enter vault_save; when one of
\* them has ended, the vault path holds what it held when the command
\* began, and the record it was about is stored as it was read, also when
\* the retry loop used another counter than the stored one and when
\* overrides were given.
C17_GenerateNoWrite ==
    \A p \in Procs :
        loc[p].cmd \in ReadOnly =>
            /\ pc[p] \notin Saving
            /\ pc[p] = "done" =>
                  /\ loc[p].at = "idle"
                  /\ loc[p].newblob = <<>> /\ loc[p].replaced = NoFile
                  /\ Content(VaultPath) = loc[p].before
                  /\ loc[p].pre # <<>> =>
                        SitesNow(loc[p].master)[loc[p].key] = loc[p].pre

C17_Witness ==
    \E p \in Procs :
        /\ pc[p] = "done" /\ loc[p].cmd = "get" /\ loc[p].outcome = "read"
        /\ loc[p].mode = "override"
        /\ loc[p].got.out.used_c_note
        /\ loc[p].got.res.used_c # loc[p].pre.c
        /\ SitesNow(loc[p].master)[loc[p].key].c = loc[p].pre.c

\* C19: every record of a saved vault is stored under its site_id, "|" and
\* its login; the record add stores has normalize_site_id of the site text
\* as site_id and the login text without surrounding whitespace as login;
\* add, rotate, get, show and generate look the record up under the key made
\* the same way of their own site and login texts, and find a record
\* exactly when the vault holds one under that key.
C19_CompositeKey ==
    \A p \in Procs :
        /\ (pc[p] = "done" /\ loc[p].outcome = "saved") =>
              LET sites == SitesNow(loc[p].master)
              IN  /\ \A k \in DOMAIN sites :
                        k = sites[k].site_id \o <<"|">> \o sites[k].login
                  /\ loc[p].cmd = "add" =>
                        /\ sites[loc[p].key].site_id = normalize_site_id(loc[p].site)
                        /\ sites[loc[p].key].login = strip(loc[p].login)
        /\ (pc[p] # "idle" /\ loc[p].key # <<>>) =>
              /\ loc[p].key = normalize_site_id(loc[p].site) \o <<"|">>
                                  \o strip(loc[p].login)
              /\ loc[p].cmd \in OnRecord =>
                    (loc[p].err = "no entry"
                        <=> loc[p].key \notin DOMAIN SitesBefore(p))
              /\ loc[p].cmd = "add" =>
                    (loc[p].err = "entry exists"
                        <=> loc[p].key \in DOMAIN SitesBefore(p))

C19_Witness ==
    \E p \in Procs :
        /\ pc[p] = "done" /\ loc[p].cmd = "get" /\ loc[p].outcome = "read"
        /\ loc[p].site # loc[p].pre.site_id
        /\ loc[p].login # loc[p].pre.login
        /\ loc[p].pre.site_id = chars("example.com")
        /\ loc[p].pre.login = chars("u@x")
        /\ loc[p].key = chars("example.com") \o <<"|">> \o chars("u@x")

\* C20: when add, rotate, get, list or show has ended without opening the
\* vault, the vault path holds what it held; else the vault holds
\* every record it held when the command began; after add those records
\* are stored as they were; after rotate every record but the one rotated
\* is stored as it was, and the one rotated has the site_id, login, policy,
\* created and notes it had; after get, list and show all records are
\* stored as they were.
C20_RecordLifecycle ==
    \A p \in Procs :
        (pc[p] = "done" /\ loc[p].cmd # "init") =>
            IF loc[p].data = <<>> THEN Content(VaultPath) = loc[p].before
            ELSE
            LET before == SitesBefore(p)
                now == SitesNow(loc[p].master)
            IN  /\ DOMAIN before \subseteq DOMAIN now
                /\ loc[p].cmd = "add" =>
                      \A k \in DOMAIN before : now[k] = before[k]
                /\ loc[p].cmd = "rotate" =>
                      \A k \in DOMAIN before :
                          IF k # loc[p].key THEN now[k] = before[k]
                          ELSE /\ now[k].site_id = before[k].site_id
                               /\ now[k].login = before[k].login
                               /\ now[k].policy = before[k].policy
                               /\ now[k].created = before[k].created
                               /\ now[k].notes = before[k].notes
                /\ loc[p].cmd \in ReadOnly => now = before

C20_Witness ==
    \E p \in Procs :
        /\ pc[p] = "done" /\ loc[p].cmd = "rotate" /\ loc[p].outcome = "saved"
        /\ loc[p].ui = "web" /\ loc[p].mode = "rseed"
        /\ \E k \in DOMAIN SitesBefore(p) :
              k # loc[p].key /\ SitesBefore(p)[k].c > 0
        /\ SitesNow(loc[p].master)[loc[p].key].rseed
              # SitesBefore(p)[loc[p].key].rseed

\* a record made in an earlier second was rotated
C20_WitnessLater ==
    \E p \in Procs :
        /\ pc[p] = "done" /\ loc[p].cmd = "rotate" /\ loc[p].outcome = "saved"
        /\ SitesBefore(p)[loc[p].key].created < clock
====
